---- MODULE Spec2Model ----
(***************************************************************************)
(* AI Execution Coach: the daily-log validator (core/log_validator.py),    *)
(* the execution-score calculator (core/score_calculator.py) and the       *)
(* weekly metrics and report (core/report_generator.py).                   *)
(*                                                                         *)
(* The inputs are JSON documents as json.load parses them: null,           *)
(* booleans, finite numbers, texts, lists, objects.                        *)
(* A JSON value is a record [t, n, s]: t is the Python type the parser     *)
(* produces ("absent" for a key that is not in its dict), n the number     *)
(* (an int as itself, a float in tenths, a bool as 0/1, a list as its      *)
(* length, a dict as the number of its keys the program never reads), s    *)
(* the text as a tuple of one-character strings.                           *)
(***************************************************************************)
EXTENDS Integers, Sequences, FiniteSets, TLC

VARIABLES fileKind, data, edits, removed, pc, result, score,
          logs, weekly, metrics, report, tier, block,
          folder, results, patterns, stored, temp

\* the week's records and what the weekly functions make of them
weekVars == <<logs, weekly, metrics, report, tier, block>>

\* a folder of log files and its validation, the analysis of one file, and the day's
\* stored log and temporary file of register_daily_log
toolVars == <<folder, results, patterns, stored, temp>>

vars == <<fileKind, data, edits, removed, pc, result, score,
          logs, weekly, metrics, report, tier, block,
          folder, results, patterns, stored, temp>>

\* ---------------------------------------------------------------- bounds
MaxEdits == 2
MaxActs == 2
MaxScoreActs == 3
\* a week has up to MaxWeekLogs records and up to MaxWeekActs activities over all of them
MaxWeekLogs == 2
MaxWeekActs == 2
\* scores are classified from OutOfRange hundredths below 0.0 to as many above 100.0
OutOfRange == 2000

\* ---------------------------------------------------------------- values
Absent == [t |-> "absent", n |-> 0, s |-> <<>>]
Null == [t |-> "null", n |-> 0, s |-> <<>>]
IntV(k) == [t |-> "int", n |-> k, s |-> <<>>]
FloatV(tenths) == [t |-> "float", n |-> tenths, s |-> <<>>]
BoolV(b) == [t |-> "bool", n |-> IF b THEN 1 ELSE 0, s |-> <<>>]
StrV(chars) == [t |-> "str", n |-> 0, s |-> chars]
ListV(len) == [t |-> "list", n |-> len, s |-> <<>>]

\* texts the program compares against
TxtNone == <<"n", "o", "n", "e">>
TxtProduction == <<"p", "r", "o", "d", "u", "c", "t", "i", "o", "n">>
TxtConsumption == <<"c", "o", "n", "s", "u", "m", "p", "t", "i", "o", "n">>
TxtBoth == <<"b", "o", "t", "h">>
TxtLearning == <<"l", "e", "a", "r", "n", "i", "n", "g">>

VALID_ACTIVITY_TYPES == <<TxtProduction, TxtConsumption, TxtBoth>>
MIN_HONESTY_SCORE == 0
MAX_HONESTY_SCORE == 10

\* ------------------------------------------------- Python's data model
\* `k in d`
Has(d, k) == d[k].t # "absent"

\* d.get(k): None for a key that is not there
Get(d, k) == IF Has(d, k) THEN d[k] ELSE Null

\* the time a number stands for, in tenths (a bool is the int 0 or 1)
Tenths(v) == IF v.t = "float" THEN v.n ELSE 10 * v.n

\* len(d) of a dict: the keys that are there, read by the program or not
DictLen(d) ==
    d.n + Cardinality({k \in DOMAIN d : k \notin {"t", "n", "s"} /\ d[k].t # "absent"})

\* bool(v): None, False, 0, 0.0, "", [] and {} are false
Truthy(v) ==
    CASE v.t \in {"null", "absent"} -> FALSE
      [] v.t \in {"int", "float", "bool"} -> v.n # 0
      [] v.t = "str" -> Len(v.s) > 0
      [] v.t = "list" -> v.n > 0
      [] v.t = "dict" -> DictLen(v) > 0
      [] OTHER -> TRUE

\* a or b
PyOr(a, b) == IF Truthy(a) THEN a ELSE b

\* isinstance(v, (int, float)): bool is a subclass of int
IsNumber(v) == v.t \in {"int", "float", "bool"}
IsStr(v) == v.t = "str"
IsDict(v) == v.t = "dict"
IsList(v) == v.t = "list"

\* s.count(c)
RECURSIVE Count(_, _)
Count(s, c) ==
    IF s = <<>> THEN 0
    ELSE (IF Head(s) = c THEN 1 ELSE 0) + Count(Tail(s), c)

\* x in lst
InList(x, lst) == \E i \in 1..Len(lst) : lst[i] = x

\* ------------------------------------------------------ error messages
\* A message is the source's text, named by msg, with the activity number
\* and the field name the f-string puts into it.
Err(m, i, f) == [msg |-> m, idx |-> i, field |-> f]
NoError == Err("None", 0, "")

Fail(e) == [valid |-> FALSE, error |-> e]
Ok == [valid |-> TRUE, error |-> NoError]

\* --------------------------------------------------- validate_daily_log
\* mutant: a duration of 0 or less is let through
ValidateTime_NoSignCheck(activity, idx) ==
    LET time_field == IF Has(activity, "duration_minutes")
                      THEN "duration_minutes" ELSE "time_invested_minutes"
    IN  IF ~IsNumber(activity[time_field]) THEN Err("debe ser un numero", idx, time_field)
        ELSE NoError

\* lines 139-144: the duration's type and sign, under the alias that is there
ValidateTime(activity, idx) ==
    LET time_field == IF Has(activity, "duration_minutes")
                      THEN "duration_minutes" ELSE "time_invested_minutes"
        time_value == activity[time_field]
    IN  IF ~IsNumber(time_value) THEN Err("debe ser un numero", idx, time_field)
        ELSE IF Tenths(time_value) <= 0 THEN Err("debe ser mayor a 0", idx, time_field)
        ELSE NoError

\* mutant: each field is settled (present, then well typed) before the next one
ValidateActivity_FieldByField(activity, idx) ==
    LET has_description == Has(activity, "name") \/ Has(activity, "description")
        has_time == Has(activity, "duration_minutes") \/ Has(activity, "time_invested_minutes")
        valid_types == VALID_ACTIVITY_TYPES \o <<TxtLearning>>
    IN  IF ~IsDict(activity) THEN Err("debe ser un objeto", idx, "")
        ELSE IF ~has_description THEN Err("debe tener", idx, "name o description")
        ELSE IF ~has_time THEN Err("debe tener", idx, "duration_minutes o time_invested_minutes")
        ELSE IF ValidateTime(activity, idx) # NoError THEN ValidateTime(activity, idx)
        ELSE IF ~Has(activity, "output_produced")
             THEN Err("campo requerido faltante", idx, "output_produced")
        ELSE IF ~IsStr(activity["output_produced"]) THEN Err("debe ser string", idx, "output_produced")
        ELSE IF ~Has(activity, "type") THEN Err("campo requerido faltante", idx, "type")
        ELSE IF ~IsStr(activity["type"]) THEN Err("debe ser string", idx, "type")
        ELSE IF ~InList(activity["type"].s, valid_types) THEN Err("debe ser uno de", idx, "type")
        ELSE NoError

\* lines 114-156: the checks of one activity, in the order of the source
ValidateActivity(activity, idx) ==
    LET has_description == Has(activity, "name") \/ Has(activity, "description")
        has_time == Has(activity, "duration_minutes") \/ Has(activity, "time_invested_minutes")
        has_output == Has(activity, "output_produced")
        has_type == Has(activity, "type")
        valid_types == VALID_ACTIVITY_TYPES \o <<TxtLearning>>
    IN  IF ~IsDict(activity) THEN Err("debe ser un objeto", idx, "")
        ELSE IF ~has_description THEN Err("debe tener", idx, "name o description")
        ELSE IF ~has_time THEN Err("debe tener", idx, "duration_minutes o time_invested_minutes")
        ELSE IF ~has_output THEN Err("campo requerido faltante", idx, "output_produced")
        ELSE IF ~has_type THEN Err("campo requerido faltante", idx, "type")
        ELSE IF has_time /\ ValidateTime(activity, idx) # NoError THEN ValidateTime(activity, idx)
        ELSE IF ~IsStr(activity["output_produced"]) THEN Err("debe ser string", idx, "output_produced")
        ELSE IF ~IsStr(activity["type"]) THEN Err("debe ser string", idx, "type")
        ELSE IF ~InList(activity["type"].s, valid_types) THEN Err("debe ser uno de", idx, "type")
        ELSE NoError

\* mutant: the loop returns after the first activity
ValidateActivities_FirstOnly(items, idx) ==
    IF idx > Len(items) THEN NoError
    ELSE ValidateActivity(items[idx], idx)

\* line 113: for idx, activity_raw in enumerate(data['activities'], start=1)
RECURSIVE ValidateActivities(_, _)
ValidateActivities(items, idx) ==
    IF idx > Len(items) THEN NoError
    ELSE IF ValidateActivity(items[idx], idx) # NoError THEN ValidateActivity(items[idx], idx)
    ELSE ValidateActivities(items, idx + 1)

\* line 159: assessment_raw = data.get('self_assessment') or data.get('self_assesment')
AssessmentOf(d) == PyOr(Get(d, "self_assessment"), Get(d, "self_assesment"))

\* mutant: `if not honesty` in place of `if honesty is None`
ValidateHonesty_Falsy(honesty) ==
    IF ~Truthy(honesty) THEN Err("campo requerido faltante", 0, "honesty_score")
    ELSE IF ~IsNumber(honesty) THEN Err("debe ser un numero", 0, "honesty_score")
    ELSE IF ~(10 * MIN_HONESTY_SCORE <= Tenths(honesty) /\ Tenths(honesty) <= 10 * MAX_HONESTY_SCORE)
         THEN Err("debe estar entre", 0, "honesty_score")
    ELSE NoError

\* lines 168-176: honesty = assessment.get('honesty_score'): there, a number, in the range
ValidateHonesty(honesty) ==
    IF honesty.t = "null" THEN Err("campo requerido faltante", 0, "honesty_score")
    ELSE IF ~IsNumber(honesty) THEN Err("debe ser un numero", 0, "honesty_score")
    ELSE IF ~(10 * MIN_HONESTY_SCORE <= Tenths(honesty) /\ Tenths(honesty) <= 10 * MAX_HONESTY_SCORE)
         THEN Err("debe estar entre", 0, "honesty_score")
    ELSE NoError

\* lines 161-192: the self-assessment, under either spelling of its key
ValidateAssessment(d) ==
    LET assessment == AssessmentOf(d)
        honesty == Get(assessment, "honesty_score")
        main_obstacle == PyOr(Get(assessment, "main_obstacle"), Get(assessment, "main_blocker"))
        commitment == PyOr(Get(assessment, "commitment_tomorrow"), Get(assessment, "tomorrow_commitment"))
    IN  IF ~IsDict(assessment) THEN Err("debe ser un objeto", 0, "self_assessment")
        ELSE IF ValidateHonesty(honesty) # NoError THEN ValidateHonesty(honesty)
        ELSE IF main_obstacle.t = "null" THEN Err("campo requerido faltante", 0, "main_obstacle o main_blocker")
        ELSE IF ~IsStr(main_obstacle) THEN Err("debe ser string", 0, "main_obstacle")
        ELSE IF commitment.t = "null"
             THEN Err("campo requerido faltante", 0, "commitment_tomorrow o tomorrow_commitment")
        ELSE IF ~IsStr(commitment) THEN Err("debe ser string", 0, "commitment_tomorrow")
        ELSE NoError

\* mutant: `and` in place of `or` between the length and the separator count
ValidateDate_EitherSuffices(date) ==
    IF ~IsStr(date) THEN Err("debe ser un string", 0, "date")
    ELSE IF Len(date.s) # 10 /\ Count(date.s, "-") # 2
         THEN Err("debe tener formato YYYY-MM-DD", 0, "date")
    ELSE NoError

\* mutant: the separators are not counted
ValidateDate_LengthOnly(date) ==
    IF ~IsStr(date) THEN Err("debe ser un string", 0, "date")
    ELSE IF Len(date.s) # 10 THEN Err("debe tener formato YYYY-MM-DD", 0, "date")
    ELSE NoError

\* lines 97-102: data['date'] is a str of length 10 with two '-'
ValidateDate(date) ==
    IF ~IsStr(date) THEN Err("debe ser un string", 0, "date")
    ELSE IF Len(date.s) # 10 \/ Count(date.s, "-") # 2
         THEN Err("debe tener formato YYYY-MM-DD", 0, "date")
    ELSE NoError

\* lines 81-109: the shape of the root, its keys, the date, the activity list
ValidateRoot(d) ==
    IF ~IsDict(d) THEN Err("debe ser un objeto", 0, "")
    ELSE IF ~Has(d, "date") THEN Err("campo requerido faltante en la raiz", 0, "date")
    ELSE IF ~Has(d, "activities") THEN Err("campo requerido faltante en la raiz", 0, "activities")
    ELSE IF ~Has(d, "self_assessment") /\ ~Has(d, "self_assesment")
         THEN Err("campo requerido faltante en la raiz", 0, "self_assessment o self_assesment")
    ELSE IF ValidateDate(d["date"]) # NoError THEN ValidateDate(d["date"])
    ELSE IF ~IsList(d["activities"]) THEN Err("debe ser una lista", 0, "activities")
    ELSE IF Len(d["activities"].items) = 0 THEN Err("no puede estar vacio", 0, "activities")
    ELSE NoError

\* lines 64-79: the file is there, is a file, and parses
ValidateFile(kind) ==
    IF kind = "missing" THEN Err("El archivo no existe", 0, "")
    ELSE IF kind = "directory" THEN Err("La ruta no corresponde a un archivo", 0, "")
    ELSE IF kind = "badjson" THEN Err("JSON invalido", 0, "")
    ELSE IF kind = "unreadable" THEN Err("Error al leer archivo", 0, "")
    ELSE NoError

\* validate_daily_log(file_path): (is_valid, error), the first failing check
validate_daily_log(kind, d) ==
    IF ValidateFile(kind) # NoError THEN Fail(ValidateFile(kind))
    ELSE IF ValidateRoot(d) # NoError THEN Fail(ValidateRoot(d))
    ELSE IF ValidateActivities(d["activities"].items, 1) # NoError
         THEN Fail(ValidateActivities(d["activities"].items, 1))
    ELSE IF ValidateAssessment(d) # NoError THEN Fail(ValidateAssessment(d))
    ELSE Ok

\* ------------------------------------------------ calculate_daily_score
UpperCase == <<"A", "B", "C", "D", "E", "F", "G", "H", "I", "J", "K", "L", "M",
               "N", "O", "P", "Q", "R", "S", "T", "U", "V", "W", "X", "Y", "Z">>
LowerCase == <<"a", "b", "c", "d", "e", "f", "g", "h", "i", "j", "k", "l", "m",
               "n", "o", "p", "q", "r", "s", "t", "u", "v", "w", "x", "y", "z">>
Whitespace == {" ", "\t", "\n"}

\* str.lower()
LowerChar(c) ==
    IF \E i \in 1..26 : UpperCase[i] = c
    THEN LowerCase[CHOOSE i \in 1..26 : UpperCase[i] = c]
    ELSE c
Lower(s) == [i \in 1..Len(s) |-> LowerChar(s[i])]

\* str.strip(): leading and trailing whitespace goes, inner whitespace stays
RECURSIVE LStrip(_)
LStrip(s) == IF s # <<>> /\ Head(s) \in Whitespace THEN LStrip(Tail(s)) ELSE s
RECURSIVE RStrip(_)
RStrip(s) ==
    IF s # <<>> /\ s[Len(s)] \in Whitespace THEN RStrip(SubSeq(s, 1, Len(s) - 1)) ELSE s
Strip(s) == RStrip(LStrip(s))

\* str(n) of a natural number
Digits == <<"0", "1", "2", "3", "4", "5", "6", "7", "8", "9">>
RECURSIVE NatStr(_)
NatStr(k) == IF k < 10 THEN <<Digits[k + 1]>> ELSE NatStr(k \div 10) \o <<Digits[(k % 10) + 1]>>
IntStr(k) == IF k < 0 THEN <<"-">> \o NatStr(-k) ELSE NatStr(k)

\* str(v): a text is itself, a list of zeros prints as [0, 0]
RECURSIVE ZerosStr(_)
ZerosStr(k) ==
    IF k = 0 THEN <<>>
    ELSE IF k = 1 THEN <<"0">>
    ELSE <<"0", ",", " ">> \o ZerosStr(k - 1)
PyStr(v) ==
    CASE v.t = "str" -> v.s
      [] v.t = "int" -> IntStr(v.n)
      [] v.t = "float" ->
            (IF v.n < 0 THEN <<"-">> ELSE <<>>)
            \o NatStr((IF v.n < 0 THEN -v.n ELSE v.n) \div 10)
            \o <<".">> \o NatStr((IF v.n < 0 THEN -v.n ELSE v.n) % 10)
      [] v.t = "bool" -> IF v.n = 1 THEN <<"T", "r", "u", "e">> ELSE <<"F", "a", "l", "s", "e">>
      [] v.t = "list" -> <<"[">> \o ZerosStr(v.n) \o <<"]">>
      [] OTHER -> <<"N", "o", "n", "e">>

\* mutant: the comparison with 'none' is made without lower()
HasTangibleOutput_CaseSensitive(activity) ==
    LET output == IF Has(activity, "output_produced") THEN activity["output_produced"]
                  ELSE StrV(TxtNone)
    IN  Truthy(output) /\ Strip(PyStr(output)) # TxtNone

\* lines 61-65: output = activity.get('output_produced', 'none');
\* output and str(output).lower().strip() != 'none'
HasTangibleOutput(activity) ==
    LET output == IF Has(activity, "output_produced") THEN activity["output_produced"]
                  ELSE StrV(TxtNone)
    IN  Truthy(output) /\ Strip(Lower(PyStr(output))) # TxtNone

\* mutant: the loop ends (`break`) at the first activity without output
RECURSIVE CountWithOutput_UntilFirstNone(_)
CountWithOutput_UntilFirstNone(items) ==
    IF items = <<>> THEN 0
    ELSE IF HasTangibleOutput(Head(items)) THEN 1 + CountWithOutput_UntilFirstNone(Tail(items))
    ELSE 0

\* lines 57-65: the activities counted
RECURSIVE CountWithOutput(_)
CountWithOutput(items) ==
    IF items = <<>> THEN 0
    ELSE (IF HasTangibleOutput(Head(items)) THEN 1 ELSE 0) + CountWithOutput(Tail(items))

\* round(100 * num / den, 2) in hundredths: to the nearest, a tie to the even one
Round2(num, den) ==
    LET q == (20000 * num + den) \div (2 * den)
        tie == (20000 * num + den) % (2 * den) = 0
    IN  IF tie /\ q % 2 = 1 THEN q - 1 ELSE q

Returned(v) == [raised |-> "None", value |-> v]
Raised(e) == [raised |-> e, value |-> 0]

\* sub in s, of two texts
Contains(s, sub) ==
    \E i \in 0..(Len(s) - Len(sub)) : SubSeq(s, i + 1, i + Len(sub)) = sub

TxtActivities == <<"a", "c", "t", "i", "v", "i", "t", "i", "e", "s">>

\* lines 42-45 on a record that is no dict: `'activities' not in v` raises on a value
\* that is no container, is a substring test on a text and an element test on a list
\* (of zeros here); a text that has the substring fails on v['activities']
ScoreOfNonDict(v) ==
    IF v.t \in {"null", "int", "float", "bool"} THEN Raised("TypeError")
    ELSE IF v.t = "str" /\ Contains(v.s, TxtActivities) THEN Raised("TypeError")
    ELSE Raised("KeyError")

\* calculate_daily_score(daily_log_dict): the score in hundredths, or the error raised
calculate_daily_score(d) ==
    IF ~IsDict(d) THEN ScoreOfNonDict(d)
    ELSE IF ~Has(d, "activities") THEN Raised("KeyError")
    ELSE IF ~IsList(d["activities"]) THEN Raised("ValueError")
    ELSE IF Len(d["activities"].items) = 0 THEN Returned(0)
    ELSE IF \E i \in 1..Len(d["activities"].items) : ~IsDict(d["activities"].items[i])
         THEN Raised("AttributeError")
    ELSE Returned(Round2(CountWithOutput(d["activities"].items), Len(d["activities"].items)))

\* round(num / den, 2) of a sum of scores in hundredths over their number: to the
\* nearest hundredth, a tie to the even one
RoundMean(num, den) ==
    LET q == (2 * num + den) \div (2 * den)
        tie == (2 * num + den) % (2 * den) = 0
    IN  IF tie /\ q % 2 = 1 THEN q - 1 ELSE q

RECURSIVE Sum(_)
Sum(xs) == IF xs = <<>> THEN 0 ELSE Head(xs) + Sum(Tail(xs))

\* what the loop of lines 99-106 has after record i: the scores appended, the warnings
\* printed, and the error that left the loop if one did
Looped(e, scores, warnings) == [raised |-> e, scores |-> scores, warnings |-> warnings]

\* mutant: a record that is skipped leaves a score of 0.0 behind
RECURSIVE DailyScoresOf_SkippedAsZero(_, _, _)
DailyScoresOf_SkippedAsZero(records, scores, warnings) ==
    IF records = <<>> THEN Looped("None", scores, warnings)
    ELSE LET r == calculate_daily_score(Head(records))
         IN  IF r.raised = "None"
             THEN DailyScoresOf_SkippedAsZero(Tail(records), Append(scores, r.value), warnings)
             ELSE IF r.raised \in {"KeyError", "ValueError"}
             THEN DailyScoresOf_SkippedAsZero(Tail(records), Append(scores, 0), warnings + 1)
             ELSE Looped(r.raised, scores, warnings)

\* lines 99-106: for daily_log in list_of_daily_logs: try ... except (KeyError, ValueError)
RECURSIVE DailyScoresOf(_, _, _)
DailyScoresOf(records, scores, warnings) ==
    IF records = <<>> THEN Looped("None", scores, warnings)
    ELSE LET r == calculate_daily_score(Head(records))
         IN  IF r.raised = "None"
             THEN DailyScoresOf(Tail(records), Append(scores, r.value), warnings)
             ELSE IF r.raised \in {"KeyError", "ValueError"}
             THEN DailyScoresOf(Tail(records), scores, warnings + 1)
             ELSE Looped(r.raised, scores, warnings)

\* what calculate_weekly_score gives: the score or the error, its message, the warnings
WeeklyOutcome(e, m, v, w) == [raised |-> e, msg |-> m, value |-> v, warnings |-> w]

\* calculate_weekly_score(list_of_daily_logs), lines 94-112
calculate_weekly_score(list_of_daily_logs) ==
    LET loop == DailyScoresOf(list_of_daily_logs, <<>>, 0)
        daily_scores == loop.scores
    IN  IF list_of_daily_logs = <<>>
        THEN WeeklyOutcome("ValueError", "La lista de logs diarios no puede estar vacia", 0, 0)
        ELSE IF loop.raised # "None" THEN WeeklyOutcome(loop.raised, "", 0, loop.warnings)
        ELSE IF daily_scores = <<>>
        THEN WeeklyOutcome("ValueError", "No se pudo calcular ningun score diario valido",
                           0, loop.warnings)
        ELSE WeeklyOutcome("None", "", RoundMean(Sum(daily_scores), Len(daily_scores)),
                           loop.warnings)

\* mutant: the upper boundary is taken into the top tier
classify_score_From80(s) ==
    IF s >= 8000 THEN "EXCELENTE"
    ELSE IF s >= 6000 THEN "ACEPTABLE"
    ELSE "FRACASO"

\* classify_score(score), lines 136-141, the score in hundredths
classify_score(s) ==
    IF s > 8000 THEN "EXCELENTE"
    ELSE IF s >= 6000 THEN "ACEPTABLE"
    ELSE "FRACASO"

\* lines 161-178 of report_generator.py: the recommendation block appended for the
\* value bound to `score` there, named by the headline of the block
RecommendationBlock(s) ==
    IF s < 6000 THEN "ACCION INMEDIATA"
    ELSE IF s < 8000 THEN "MEJORA NECESARIA"
    ELSE "CONTINUA"

\* ----------------------------------------------------- report_generator.py
\* the counters of lines 24-28 after some activities, or the error that ended the loop
Counted(e, n, k, t, p, c) ==
    [raised |-> e, total_activities |-> n, activities_with_output |-> k,
     total_time_minutes |-> t, production_time |-> p, consumption_time |-> c]

\* line 48: activity.get('time_invested_minutes') or activity.get('duration_minutes', 0)
TimeInvested(activity) ==
    PyOr(Get(activity, "time_invested_minutes"),
         IF Has(activity, "duration_minutes") THEN activity["duration_minutes"] ELSE IntV(0))

\* line 52: activity.get('type', 'both')
TypeOf(activity) == IF Has(activity, "type") THEN activity["type"] ELSE StrV(TxtBoth)

\* lines 54-63: the time goes to production (TRUE) or to consumption (FALSE)
IsProductionTime(activity) ==
    LET activity_type == Lower(TypeOf(activity).s)
    IN  IF activity_type = TxtProduction THEN TRUE
        ELSE IF activity_type = TxtConsumption THEN FALSE
        ELSE HasTangibleOutput(activity)

\* lines 56-57 and 62-63: the time goes to consumption
IsConsumptionTime(activity) == ~IsProductionTime(activity)

\* lines 41-63: the loop over the activities of one record, from activity idx on; the
\* times are in tenths of a minute
RECURSIVE CountActivities(_, _, _)
CountActivities(items, idx, acc) ==
    IF idx > Len(items) THEN acc
    ELSE LET activity == items[idx]
             time_invested == TimeInvested(activity)
         IN  IF ~IsNumber(time_invested) THEN [acc EXCEPT !.raised = "TypeError"]
             ELSE IF ~IsStr(TypeOf(activity)) THEN [acc EXCEPT !.raised = "AttributeError"]
             ELSE CountActivities(items, idx + 1,
                    Counted("None", acc.total_activities,
                            acc.activities_with_output
                                + (IF HasTangibleOutput(activity) THEN 1 ELSE 0),
                            acc.total_time_minutes + Tenths(time_invested),
                            acc.production_time
                                + (IF IsProductionTime(activity) THEN Tenths(time_invested) ELSE 0),
                            acc.consumption_time
                                + (IF IsConsumptionTime(activity) THEN Tenths(time_invested) ELSE 0)))

\* lines 32-39: `'activities' not in log`, len(activities), calculate_daily_score(log)
EnterLog(log) ==
    IF ~IsDict(log)
    THEN (IF ScoreOfNonDict(log).raised = "KeyError" THEN "skip" ELSE "TypeError")
    ELSE IF ~Has(log, "activities") THEN "skip"
    ELSE IF log["activities"].t \in {"null", "int", "float", "bool"} THEN "TypeError"
    ELSE calculate_daily_score(log).raised

Metrics(e, counts, scores, w) ==
    [raised |-> e, total_activities |-> counts.total_activities,
     activities_with_output |-> counts.activities_with_output,
     total_time_minutes |-> counts.total_time_minutes,
     production_time |-> counts.production_time,
     consumption_time |-> counts.consumption_time,
     production_percentage |-> 0, consumption_percentage |-> 0,
     weekly_score |-> w, daily_scores |-> scores]

\* lines 31-63: the loop over the records, from record i on
RECURSIVE MetricsLoop(_, _, _, _)
MetricsLoop(daily_logs, i, acc, daily_scores) ==
    IF i > Len(daily_logs) THEN Metrics("None", acc, daily_scores, 0)
    ELSE LET log == daily_logs[i]
             entered == EnterLog(log)
             counted == CountActivities(log["activities"].items, 1,
                            [acc EXCEPT !.total_activities = @ + Len(log["activities"].items)])
         IN  IF entered = "skip" THEN MetricsLoop(daily_logs, i + 1, acc, daily_scores)
             ELSE IF entered # "None" THEN Metrics(entered, acc, daily_scores, 0)
             ELSE IF counted.raised # "None" THEN Metrics(counted.raised, acc, daily_scores, 0)
             ELSE MetricsLoop(daily_logs, i + 1, counted,
                              Append(daily_scores, calculate_daily_score(log).value))

\* mutant: the percentage is cut after its first decimal, not rounded
Percentage_Truncated(part, total) ==
    IF total > 0 THEN (1000 * part) \div total ELSE 0

\* lines 66-67 and 79-80: round((part / total_time_minutes * 100) if
\* total_time_minutes > 0 else 0, 1), in tenths of a percent
Percentage(part, total) ==
    IF total > 0 THEN RoundMean(1000 * part, total) ELSE 0

\* calculate_weekly_metrics(daily_logs), lines 24-83; total_time_hours, which only the
\* texts show, is left out
calculate_weekly_metrics(daily_logs) ==
    LET looped == MetricsLoop(daily_logs, 1, Counted("None", 0, 0, 0, 0, 0), <<>>)
    IN  IF looped.raised # "None" THEN looped
        ELSE [looped EXCEPT
                 !.production_percentage =
                     Percentage(looped.production_time, looped.total_time_minutes),
                 !.consumption_percentage =
                     Percentage(looped.consumption_time, looped.total_time_minutes),
                 !.weekly_score =
                     IF looped.daily_scores = <<>> THEN 0
                     ELSE RoundMean(Sum(looped.daily_scores), Len(looped.daily_scores))]

\* lines 103-108: the verdict of a classification
Verdict(classification) ==
    IF classification = "EXCELENTE" THEN "EXCELENTE - Sigue asi"
    ELSE IF classification = "ACEPTABLE" THEN "ACEPTABLE - Limite inferior, cuidado"
    ELSE "FRACASO - Accion inmediata requerida"

\* lines 152-154: one line per daily score; the loop variable is named `score`
DayLines(daily_scores) ==
    [i \in 1..Len(daily_scores) |->
        [score |-> daily_scores[i], score_class |-> classify_score(daily_scores[i])]]

\* the value bound to `score` when the loop of lines 152-154 is over: the loop rebinds it
\* to each daily score in turn
ScoreAfterDays(weekly_score, daily_scores) ==
    IF daily_scores = <<>> THEN weekly_score ELSE daily_scores[Len(daily_scores)]

\* generate_weekly_report(daily_logs), lines 98-186: the parts of the text that depend on
\* the score; the text shows execution_score with one decimal, next to the two counts of
\* lines 124-128
generate_weekly_report(daily_logs) ==
    LET m == calculate_weekly_metrics(daily_logs)
        classification == classify_score(m.weekly_score)
    IN  IF m.raised # "None" THEN [raised |-> m.raised]
        ELSE [raised |-> "None",
              execution_score |-> m.weekly_score,
              total_activities |-> m.total_activities,
              activities_with_output |-> m.activities_with_output,
              classification |-> classification,
              verdict |-> Verdict(classification),
              days |-> DayLines(m.daily_scores),
              recommendation |->
                  RecommendationBlock(ScoreAfterDays(m.weekly_score, m.daily_scores))]

\* ----------------------------------- analyze_execution_patterns (log_validator.py)
\* the counters of lines 285-290 after some activities, or the error that ended the loop
Patterns(e, t, p, c, b, k, z) ==
    [raised |-> e, none |-> FALSE, total_minutes |-> t, production_minutes |-> p,
     consumption_minutes |-> c, both_minutes |-> b, activities_with_output |-> k,
     zero_output_count |-> z, total_activities |-> 0, execution_score |-> 0]

\* mutant: a whitespace-only output is counted as an output
NoOutput_Untrimmed(activity) ==
    Lower(activity["output_produced"].s) \in {TxtNone, <<>>}

\* lines 306-307: output = activity['output_produced'].strip().lower();
\* output == 'none' or output == ''
NoOutput(activity) ==
    Lower(Strip(activity["output_produced"].s)) \in {TxtNone, <<>>}

\* lines 293-310: the loop over the activities of an accepted log, from activity i on;
\* the minutes are in tenths
RECURSIVE AnalyzeActivities(_, _, _)
AnalyzeActivities(items, i, acc) ==
    IF i > Len(items) THEN acc
    ELSE LET activity == items[i]
             duration == Tenths(activity["duration_minutes"])
             ty == activity["type"].s
         IN  IF ~Has(activity, "duration_minutes") THEN [acc EXCEPT !.raised = "KeyError"]
             ELSE AnalyzeActivities(items, i + 1,
                    Patterns("None", acc.total_minutes + duration,
                             acc.production_minutes + (IF ty = TxtProduction THEN duration ELSE 0),
                             acc.consumption_minutes + (IF ty = TxtConsumption THEN duration ELSE 0),
                             acc.both_minutes + (IF ty = TxtBoth THEN duration ELSE 0),
                             acc.activities_with_output + (IF NoOutput(activity) THEN 0 ELSE 1),
                             acc.zero_output_count + (IF NoOutput(activity) THEN 1 ELSE 0)))

\* lines 329-330: data['self_assessment']['honesty_score'] and
\* data['self_assessment']['main_obstacle']
ReadAssessment(d) ==
    IF ~Has(d, "self_assessment") THEN "KeyError"
    ELSE IF ~IsDict(d["self_assessment"]) THEN "TypeError"
    ELSE IF ~Has(d["self_assessment"], "honesty_score") THEN "KeyError"
    ELSE IF ~Has(d["self_assessment"], "main_obstacle") THEN "KeyError"
    ELSE "None"

\* analyze_execution_patterns(file_path), lines 275-333; execution_ratio and the values
\* copied from the log are left out
analyze_execution_patterns(kind, d) ==
    LET counted == AnalyzeActivities(d["activities"].items, 1, Patterns("None", 0, 0, 0, 0, 0, 0))
    IN  IF ~validate_daily_log(kind, d).valid
        THEN [Patterns("None", 0, 0, 0, 0, 0, 0) EXCEPT !.none = TRUE]
        ELSE IF counted.raised # "None" THEN counted
        ELSE IF ReadAssessment(d) # "None" THEN [counted EXCEPT !.raised = ReadAssessment(d)]
        ELSE [counted EXCEPT !.total_activities = Len(d["activities"].items),
                             !.execution_score = calculate_daily_score(d).value]

\* ------------------------------------------------------ the input records
\* A parsed activity: a dict with the keys the program reads, or another value.
Activity(nm, ds, dm, tim, out, ty) ==
    [t |-> "dict", n |-> 0, s |-> <<>>, name |-> nm, description |-> ds,
     duration_minutes |-> dm, time_invested_minutes |-> tim,
     output_produced |-> out, type |-> ty]
NonDictActivity(v) ==
    [t |-> v.t, n |-> v.n, s |-> v.s, name |-> Absent, description |-> Absent,
     duration_minutes |-> Absent, time_invested_minutes |-> Absent,
     output_produced |-> Absent, type |-> Absent]

\* A parsed self-assessment: a dict with the keys the program reads, or another value.
Assessment(h, mo, mb, ct, tc) ==
    [t |-> "dict", n |-> 0, s |-> <<>>, honesty_score |-> h, main_obstacle |-> mo,
     main_blocker |-> mb, commitment_tomorrow |-> ct, tomorrow_commitment |-> tc]
NonDictAssessment(v) ==
    [t |-> v.t, n |-> v.n, s |-> v.s, honesty_score |-> Absent, main_obstacle |-> Absent,
     main_blocker |-> Absent, commitment_tomorrow |-> Absent, tomorrow_commitment |-> Absent]

\* The value under 'activities': a list of activities, or another value.
ActivityList(items) == [t |-> "list", n |-> Len(items), s |-> <<>>, items |-> items]
NonListActivities(v) == [t |-> v.t, n |-> v.n, s |-> v.s, items |-> <<>>]

\* The parsed file: a dict with the keys the program reads, or another value.
DailyLog(dt, acts, sa, sae) ==
    [t |-> "dict", n |-> 0, s |-> <<>>, date |-> dt, activities |-> acts,
     self_assessment |-> sa, self_assesment |-> sae]
NonDictLog(v) ==
    [t |-> v.t, n |-> v.n, s |-> v.s, date |-> Absent,
     activities |-> NonListActivities(Absent),
     self_assessment |-> NonDictAssessment(Absent),
     self_assesment |-> NonDictAssessment(Absent)]

TxtDate == <<"2", "0", "2", "6", "-", "0", "1", "-", "1", "3">>

\* a log in the field names of the docstring, and one in the legacy names
LogNew ==
    DailyLog(StrV(TxtDate),
             ActivityList(<<Activity(StrV(<<"a">>), Absent, IntV(30), Absent,
                                     StrV(<<"f">>), StrV(TxtProduction))>>),
             Assessment(IntV(5), StrV(<<"x">>), Absent, StrV(<<"y">>), Absent),
             NonDictAssessment(Absent))
LogLegacy ==
    DailyLog(StrV(TxtDate),
             ActivityList(<<Activity(Absent, StrV(<<"a">>), Absent, FloatV(5),
                                     StrV(TxtNone), StrV(TxtLearning))>>),
             NonDictAssessment(Absent),
             Assessment(IntV(0), Absent, StrV(<<"x">>), Absent, StrV(<<"y">>)))

FileKinds == {"file", "missing", "directory", "badjson", "unreadable"}

\* values a writer of the file can put under each key
DateValues ==
    {Absent, Null, IntV(20260113), StrV(TxtDate),
     StrV(<<"a", "b", "-", "c", "d", "-", "e", "f", "g", "h">>),
     StrV(<<"2", "0", "2", "6", "-", "1", "-", "1", "3">>),
     StrV(<<"2", "0", "2", "6", "-", "0", "1", "-", "0", "1", "3">>),
     StrV(<<"2", "0", "2", "6", "/", "0", "1", "-", "1", "3">>),
     StrV(<<"2", "0", "2", "6", "-", "0", "1", "-", "-", "3">>),
     StrV(<<"-", "-", "2", "0", "2", "6", "0", "1", "1", "3">>)}
TextValues == {Absent, Null, IntV(0), IntV(5), ListV(0), StrV(<<>>), StrV(<<"x">>)}
DurationValues ==
    {Absent, Null, StrV(<<"3", "0">>), IntV(0), IntV(-5), IntV(30), FloatV(5), FloatV(0),
     BoolV(TRUE)}
OutputValues ==
    {Absent, Null, IntV(5), StrV(<<>>), StrV(<<" ">>), StrV(TxtNone),
     StrV(<<" ", "N", "o", "n", "e", "\t">>), StrV(<<"f">>)}
TypeValues ==
    {Absent, Null, IntV(1), StrV(TxtProduction), StrV(TxtConsumption), StrV(TxtBoth),
     StrV(TxtLearning), StrV(<<"P", "r", "o", "d", "u", "c", "t", "i", "o", "n">>),
     StrV(<<>>)}
HonestyValues ==
    {Absent, Null, StrV(<<"5">>), IntV(0), IntV(5), IntV(10), IntV(-1), IntV(11),
     FloatV(105), FloatV(99), FloatV(-1), BoolV(TRUE), ListV(0)}

ActivityKeys ==
    {"name", "description", "duration_minutes", "time_invested_minutes",
     "output_produced", "type"}
AssessmentKeys ==
    {"honesty_score", "main_obstacle", "main_blocker", "commitment_tomorrow",
     "tomorrow_commitment"}
AssessmentNames == {"self_assessment", "self_assesment"}

ActivityValues(k) ==
    CASE k \in {"name", "description"} -> TextValues
      [] k \in {"duration_minutes", "time_invested_minutes"} -> DurationValues
      [] k = "output_produced" -> OutputValues
      [] OTHER -> TypeValues
AssessmentValues(k) == IF k = "honesty_score" THEN HonestyValues ELSE TextValues

\* ------------------------------------------------------ the data model
\* The record shape of the docstring of validate_daily_log (lines 30-46) with the
\* aliases the validator names: what a record must hold to be a valid daily log.
ValidDate(v) == IsStr(v) /\ Len(v.s) = 10 /\ Count(v.s, "-") = 2
ValidDuration(v) == v.t \in {"int", "float"} /\ Tenths(v) > 0
ValidType(v) == IsStr(v) /\ v.s \in {TxtProduction, TxtConsumption, TxtBoth, TxtLearning}
ValidHonesty(v) == v.t \in {"int", "float"} /\ 0 <= Tenths(v) /\ Tenths(v) <= 100

\* the key is there under one alias at least, and every alias that is there is well typed
OneOf(d, k1, k2, Good(_)) ==
    /\ Has(d, k1) \/ Has(d, k2)
    /\ Has(d, k1) => Good(d[k1])
    /\ Has(d, k2) => Good(d[k2])

ValidActivity(a) ==
    /\ IsDict(a)
    /\ Has(a, "name") \/ Has(a, "description")
    /\ OneOf(a, "duration_minutes", "time_invested_minutes", ValidDuration)
    /\ IsStr(a["output_produced"])
    /\ ValidType(a["type"])

ValidAssessment(a) ==
    /\ IsDict(a)
    /\ ValidHonesty(a["honesty_score"])
    /\ OneOf(a, "main_obstacle", "main_blocker", IsStr)
    /\ OneOf(a, "commitment_tomorrow", "tomorrow_commitment", IsStr)

ValidRecord(d) ==
    /\ IsDict(d)
    /\ ValidDate(d["date"])
    /\ IsList(d["activities"])
    /\ Len(d["activities"].items) > 0
    /\ \A i \in 1..Len(d["activities"].items) : ValidActivity(d["activities"].items[i])
    /\ OneOf(d, "self_assessment", "self_assesment", ValidAssessment)

\* the required fields, each with the keys (aliases) that carry it
Required(where, i, keys) == [where |-> where, idx |-> i, keys |-> keys]
NothingRemoved == Required("", 0, {})
RootFields ==
    {Required("root", 0, {"date"}), Required("root", 0, {"activities"}),
     Required("root", 0, {"self_assessment", "self_assesment"})}
ActivityFields(i) ==
    {Required("activity", i, {"name", "description"}),
     Required("activity", i, {"duration_minutes", "time_invested_minutes"}),
     Required("activity", i, {"output_produced"}), Required("activity", i, {"type"})}
AssessmentFields ==
    {Required("assessment", 0, {"honesty_score"}),
     Required("assessment", 0, {"main_obstacle", "main_blocker"}),
     Required("assessment", 0, {"commitment_tomorrow", "tomorrow_commitment"})}

\* the record without the keys of f (del d[k] for each alias k)
WithoutKeys(d, keys) == [k \in DOMAIN d |-> IF k \in keys THEN Absent ELSE d[k]]
WithoutRootKeys(d, keys) ==
    [d EXCEPT !["date"] = IF "date" \in keys THEN Absent ELSE @,
              !["activities"] = IF "activities" \in keys THEN NonListActivities(Absent) ELSE @,
              !["self_assessment"] = IF "self_assessment" \in keys
                                     THEN NonDictAssessment(Absent) ELSE @,
              !["self_assesment"] = IF "self_assesment" \in keys
                                    THEN NonDictAssessment(Absent) ELSE @]
Without(d, f) ==
    CASE f.where = "root" -> WithoutRootKeys(d, f.keys)
      [] f.where = "activity" ->
            [d EXCEPT !["activities"].items[f.idx] = WithoutKeys(@, f.keys)]
      [] OTHER ->
            [d EXCEPT !["self_assessment"] = IF IsDict(@) THEN WithoutKeys(@, f.keys) ELSE @,
                      !["self_assesment"] = IF IsDict(@) THEN WithoutKeys(@, f.keys) ELSE @]

\* ------------------------------------------------------------ the machine
NotRun == [valid |-> FALSE, error |-> Err("not run", 0, "")]
NoScore == Raised("not run")

\* no folder has been validated, no file analysed, no log registered
NoTools ==
    /\ folder = <<>>
    /\ results = NoScore
    /\ patterns = NoScore
    /\ stored = "none"
    /\ temp = FALSE

\* no week has been handed to the weekly functions
NoWeek ==
    /\ logs = <<>>
    /\ weekly = NoScore
    /\ metrics = NoScore
    /\ report = NoScore
    /\ tier = "not run"
    /\ block = "not run"

Init ==
    /\ fileKind = "file"
    /\ data \in {LogNew, LogLegacy}
    /\ edits = 0
    /\ removed = NothingRemoved
    /\ pc = "build"
    /\ result = NotRun
    /\ score = NoScore
    /\ NoWeek
    /\ NoTools

Editing == pc = "build" /\ edits < MaxEdits /\ fileKind = "file"

Edited(d) ==
    /\ data' = d
    /\ d # data
    /\ edits' = edits + 1
    /\ UNCHANGED <<fileKind, removed, pc, result, score>>
    /\ UNCHANGED weekVars
    /\ UNCHANGED toolVars

\* the path names no file, a directory, a file that is not JSON or one that cannot be read
SetFileKind ==
    /\ pc = "build" /\ edits < MaxEdits /\ fileKind = "file"
    /\ \E k \in FileKinds \ {"file"} : fileKind' = k
    /\ edits' = edits + 1
    /\ UNCHANGED <<data, removed, pc, result, score>>
    /\ UNCHANGED weekVars
    /\ UNCHANGED toolVars

\* the file holds a list, a number or null instead of an object
SetRoot ==
    /\ Editing /\ IsDict(data)
    /\ \E v \in {Null, IntV(5), ListV(0)} : Edited(NonDictLog(v))

SetDate ==
    /\ Editing /\ IsDict(data)
    /\ \E v \in DateValues : Edited([data EXCEPT !["date"] = v])

\* 'activities' is absent, is not a list, or is the empty list
SetActivities ==
    /\ Editing /\ IsDict(data)
    /\ \E v \in {Absent, Null, IntV(5), ListV(0)} :
          Edited([data EXCEPT !["activities"] =
                     IF v.t = "list" THEN ActivityList(<<>>) ELSE NonListActivities(v)])

AppendActivity ==
    /\ Editing /\ IsDict(data) /\ IsList(data["activities"])
    /\ Len(data["activities"].items) < MaxActs
    /\ \E a \in {LogNew["activities"].items[1], LogLegacy["activities"].items[1]} :
          Edited([data EXCEPT !["activities"] = ActivityList(Append(@.items, a))])

SetActivity ==
    /\ Editing /\ IsDict(data) /\ IsList(data["activities"])
    /\ \E i \in 1..Len(data["activities"].items) :
          \/ \E v \in {Null, IntV(5), StrV(<<"a">>)} :
                Edited([data EXCEPT !["activities"].items[i] = NonDictActivity(v)])
          \/ /\ IsDict(data["activities"].items[i])
             /\ \E k \in ActivityKeys : \E v \in ActivityValues(k) :
                   Edited([data EXCEPT !["activities"].items[i][k] = v])

SetAssessment ==
    /\ Editing /\ IsDict(data)
    /\ \E nm \in AssessmentNames :
          \/ \E v \in {Absent, Null, IntV(5), StrV(<<"x">>)} :
                Edited([data EXCEPT ![nm] = NonDictAssessment(v)])
          \/ \E a \in {Assessment(Absent, Absent, Absent, Absent, Absent),
                       [Assessment(Absent, Absent, Absent, Absent, Absent) EXCEPT !.n = 1],
                       LogNew["self_assessment"], LogLegacy["self_assesment"]} :
                Edited([data EXCEPT ![nm] = a])
          \/ /\ IsDict(data[nm])
             /\ \E k \in AssessmentKeys : \E v \in AssessmentValues(k) :
                   Edited([data EXCEPT ![nm][k] = v])

\* a valid record loses one required field, under every alias of it
RemoveField ==
    /\ pc = "build" /\ fileKind = "file" /\ ValidRecord(data)
    /\ \E f \in RootFields \cup AssessmentFields
                \cup UNION {ActivityFields(i) : i \in 1..Len(data["activities"].items)} :
          /\ data' = Without(data, f)
          /\ removed' = f
    /\ pc' = "removed"
    /\ UNCHANGED <<fileKind, edits, result, score>>
    /\ UNCHANGED weekVars
    /\ UNCHANGED toolVars

\* is_valid, error = validate_daily_log(file_path)
Validate ==
    /\ pc \in {"build", "removed"}
    /\ result' = validate_daily_log(fileKind, data)
    /\ pc' = "validated"
    /\ UNCHANGED <<fileKind, data, edits, removed, score>>
    /\ UNCHANGED weekVars
    /\ UNCHANGED toolVars

\* execution_score = calculate_daily_score(data), of a log that passed validation
Score ==
    /\ pc = "validated" /\ result.valid
    /\ score' = calculate_daily_score(data)
    /\ pc' = "scored"
    /\ UNCHANGED <<fileKind, data, edits, removed, result>>
    /\ UNCHANGED weekVars
    /\ UNCHANGED toolVars

\* metrics = analyze_execution_patterns(file_path)
Analyze ==
    /\ pc \in {"build", "removed"}
    /\ patterns' = analyze_execution_patterns(fileKind, data)
    /\ pc' = "analysed"
    /\ UNCHANGED <<fileKind, data, edits, removed, result, score>>
    /\ UNCHANGED weekVars
    /\ UNCHANGED <<folder, results, stored, temp>>

Next ==
    \/ SetFileKind
    \/ SetRoot
    \/ SetDate
    \/ SetActivities
    \/ AppendActivity
    \/ SetActivity
    \/ SetAssessment
    \/ RemoveField
    \/ Validate
    \/ Score
    \/ Analyze

Spec == Init /\ [][Next]_vars

\* ============================================================== claims
Check(fails, e) == [fails |-> fails, error |-> e]

\* the error of the first failing check of a list of checks
FirstFailing(checks) ==
    IF \E i \in 1..Len(checks) : checks[i].fails
    THEN checks[CHOOSE i \in 1..Len(checks) :
                    checks[i].fails /\ \A j \in 1..(i - 1) : ~checks[j].fails].error
    ELSE NoError

RECURSIVE Flatten(_)
Flatten(lists) == IF lists = <<>> THEN <<>> ELSE Head(lists) \o Flatten(Tail(lists))

DurationField(a) ==
    IF Has(a, "duration_minutes") THEN "duration_minutes" ELSE "time_invested_minutes"

\* checks 1 to 4 of the specification: the shape of the root, its keys, the date, the list
RootChecks(d) ==
    <<Check(d.t # "dict", Err("debe ser un objeto", 0, "")),
      Check(d["date"].t = "absent", Err("campo requerido faltante en la raiz", 0, "date")),
      Check(d["activities"].t = "absent",
            Err("campo requerido faltante en la raiz", 0, "activities")),
      Check(d["self_assessment"].t = "absent" /\ d["self_assesment"].t = "absent",
            Err("campo requerido faltante en la raiz", 0, "self_assessment o self_assesment")),
      Check(d["date"].t # "str", Err("debe ser un string", 0, "date")),
      Check(~ValidDate(d["date"]), Err("debe tener formato YYYY-MM-DD", 0, "date")),
      Check(d["activities"].t # "list", Err("debe ser una lista", 0, "activities")),
      Check(d["activities"].items = <<>>, Err("no puede estar vacio", 0, "activities"))>>

\* the single checks of activity i
ChkObject(a, i) == Check(a.t # "dict", Err("debe ser un objeto", i, ""))
ChkHasDescription(a, i) ==
    Check(a["name"].t = "absent" /\ a["description"].t = "absent",
          Err("debe tener", i, "name o description"))
ChkHasDuration(a, i) ==
    Check(a["duration_minutes"].t = "absent" /\ a["time_invested_minutes"].t = "absent",
          Err("debe tener", i, "duration_minutes o time_invested_minutes"))
ChkDurationNumeric(a, i) ==
    Check(a[DurationField(a)].t \notin {"int", "float", "bool"},
          Err("debe ser un numero", i, DurationField(a)))
ChkDurationPositive(a, i) ==
    Check(~(Tenths(a[DurationField(a)]) > 0), Err("debe ser mayor a 0", i, DurationField(a)))
ChkHasOutput(a, i) ==
    Check(a["output_produced"].t = "absent",
          Err("campo requerido faltante", i, "output_produced"))
ChkOutputText(a, i) ==
    Check(a["output_produced"].t # "str", Err("debe ser string", i, "output_produced"))
ChkHasType(a, i) ==
    Check(a["type"].t = "absent", Err("campo requerido faltante", i, "type"))
ChkTypeText(a, i) == Check(a["type"].t # "str", Err("debe ser string", i, "type"))
ChkTypeInSet(a, i) == Check(~ValidType(a["type"]), Err("debe ser uno de", i, "type"))

\* check 5 of the specification, a to e: each field is settled before the next one
SpecOrder(a, i) ==
    <<ChkObject(a, i), ChkHasDescription(a, i),
      ChkHasDuration(a, i), ChkDurationNumeric(a, i), ChkDurationPositive(a, i),
      ChkHasOutput(a, i), ChkOutputText(a, i),
      ChkHasType(a, i), ChkTypeText(a, i), ChkTypeInSet(a, i)>>

\* the same checks, the four presence checks before any check of a value
PresenceFirstOrder(a, i) ==
    <<ChkObject(a, i), ChkHasDescription(a, i),
      ChkHasDuration(a, i), ChkHasOutput(a, i), ChkHasType(a, i),
      ChkDurationNumeric(a, i), ChkDurationPositive(a, i),
      ChkOutputText(a, i), ChkTypeText(a, i), ChkTypeInSet(a, i)>>

IsAssessmentError(e) ==
    /\ e.idx = 0
    /\ e.field \in {"self_assessment", "honesty_score", "main_obstacle o main_blocker",
                    "main_obstacle", "commitment_tomorrow o tomorrow_commitment",
                    "commitment_tomorrow"}

\* the result validate_daily_log must give when the activity checks run in Order
FirstFailureReported(Order(_, _)) ==
    LET items == data["activities"].items
        e == FirstFailing(RootChecks(data)
                          \o Flatten([i \in 1..Len(items) |-> Order(items[i], i)]))
    IN  IF e # NoError THEN result = Fail(e)
        ELSE result.valid \/ IsAssessmentError(result.error)

Validated == pc = "validated" /\ fileKind = "file"

\* C1 (as stated): the one error reported is that of the first failing check in the order
\* of the specification: root shape, root keys, date, activity list, then per activity
\* object, description, duration (present, numeric, > 0), output_produced (present, text),
\* type (present, text, in the set), then the self-assessment.
C1_SpecOrder == Validated => FirstFailureReported(SpecOrder)

\* C1 (amended): the one error reported is that of the first failing check in this order:
\* root shape, root keys, date, activity list, then per activity object, description
\* present, duration present, output_produced present, type present, duration numeric,
\* duration > 0, output_produced text, type text, type in the set, then the
\* self-assessment; no later activity and no self-assessment error is reported while an
\* earlier activity has a failing check.
C1_PresenceFirstOrder == Validated => FirstFailureReported(PresenceFirstOrder)

\* an activity with a duration of 0 and no output_produced: the missing key is reported
C1_Witness ==
    /\ Validated
    /\ Len(data["activities"].items) > 0
    /\ data["activities"].items[1]["duration_minutes"] = IntV(0)
    /\ ~Has(data["activities"].items[1], "output_produced")
    /\ result = Fail(Err("campo requerido faltante", 1, "output_produced"))

\* isinstance(v, (int, float)) as Python has it: an int, a float or a bool
Numeric(v) == v.t \in {"int", "float", "bool"}

\* C2: every record that satisfies the data model (free texts possibly empty) is
\* accepted: validate_daily_log returns (True, None).
C2_ValidAccepted ==
    (Validated /\ removed = NothingRemoved /\ ValidRecord(data)) => result = Ok

\* the keys a message names
MessageKeys(e) ==
    CASE e.field = "name o description" -> {"name", "description"}
      [] e.field = "duration_minutes o time_invested_minutes" ->
            {"duration_minutes", "time_invested_minutes"}
      [] e.field = "self_assessment o self_assesment" -> {"self_assessment", "self_assesment"}
      [] e.field = "main_obstacle o main_blocker" -> {"main_obstacle", "main_blocker"}
      [] e.field = "commitment_tomorrow o tomorrow_commitment" ->
            {"commitment_tomorrow", "tomorrow_commitment"}
      [] OTHER -> {e.field}

\* the message is about required field f: it names f's keys, and f's activity if it has one
NamesField(e, f) == e.idx = f.idx /\ MessageKeys(e) \cap f.keys # {}

\* C3: a valid record that loses exactly one required field (under all its aliases) is
\* rejected with a message that names the removed field.
C3_RemovedFieldNamed ==
    (Validated /\ removed # NothingRemoved) =>
        (~result.valid /\ NamesField(result.error, removed))

\* C4: in the self-assessment the first-listed alias wins when it is present: a
\* main_obstacle (commitment_tomorrow) that is present but not text makes the record
\* rejected whatever main_blocker (tomorrow_commitment) holds, and one that is present
\* with a text value is never reported as a missing field.
FirstAliasWins(a, first, missing) ==
    /\ (Has(a, first) /\ ~IsStr(a[first])) => ~result.valid
    /\ (Has(a, first) /\ IsStr(a[first])) => result.error.field # missing
C4_FirstAliasPreferred ==
    (Validated /\ IsDict(data) /\ IsDict(AssessmentOf(data))) =>
        /\ FirstAliasWins(AssessmentOf(data), "main_obstacle", "main_obstacle o main_blocker")
        /\ FirstAliasWins(AssessmentOf(data), "commitment_tomorrow",
                          "commitment_tomorrow o tomorrow_commitment")

DateCheckReached ==
    /\ Validated /\ IsDict(data)
    /\ Has(data, "date") /\ Has(data, "activities")
    /\ Has(data, "self_assessment") \/ Has(data, "self_assesment")
PassesDateCheck == result.valid \/ result.error.field # "date"

\* C6: the date check is purely syntactic: a record passes it if and only if date is a
\* text of exactly 10 characters of which exactly two are '-'; digits and calendar are
\* not looked at.
C6_DateSyntactic ==
    DateCheckReached =>
        (PassesDateCheck <=>
            /\ data["date"].t = "str"
            /\ Len(data["date"].s) = 10
            /\ Cardinality({i \in 1..Len(data["date"].s) : data["date"].s[i] = "-"}) = 2)

\* a date without a digit passes, and the record is accepted
C6_Witness ==
    /\ DateCheckReached /\ result.valid
    /\ \A i \in 1..Len(data["date"].s) : data["date"].s[i] \notin {"0", "1", "2", "3", "6"}

\* s.split(sep): the groups between the separators
RECURSIVE Split(_, _)
Split(s, sep) ==
    IF \A i \in 1..Len(s) : s[i] # sep THEN <<s>>
    ELSE LET i == CHOOSE i \in 1..Len(s) : s[i] = sep /\ \A j \in 1..(i - 1) : s[j] # sep
         IN  <<SubSeq(s, 1, i - 1)>> \o Split(SubSeq(s, i + 1, Len(s)), sep)
NumericGroup(g) ==
    g # <<>> /\ \A i \in 1..Len(g) : g[i] \in {"0", "1", "2", "3", "4", "5", "6", "7", "8", "9"}

\* C7 (as stated): the date of every accepted record parses as exactly two separators
\* splitting three numeric groups.
C7_NumericGroups ==
    (Validated /\ result.valid) =>
        /\ Len(Split(data["date"].s, "-")) = 3
        /\ \A i \in 1..3 : NumericGroup(Split(data["date"].s, "-")[i])

\* C7 (amended): the date of every accepted record is a text of 10 characters that
\* exactly two separators split into three groups; the groups need not be numeric.
C7_ThreeGroups ==
    (Validated /\ result.valid) =>
        /\ data["date"].t = "str"
        /\ Len(Split(data["date"].s, "-")) = 3
        /\ Len(Split(data["date"].s, "-")[1]) + Len(Split(data["date"].s, "-")[2])
              + Len(Split(data["date"].s, "-")[3]) = 8

\* an accepted record whose date has a group that is not numeric
C7_Witness ==
    /\ Validated /\ result.valid
    /\ \E i \in 1..3 : ~NumericGroup(Split(data["date"].s, "-")[i])

\* the honesty check (lines 168-176) is reached: everything before it passed
HonestyCheckReached ==
    /\ Validated /\ IsDict(data)
    /\ result.valid \/ IsAssessmentError(result.error)
    /\ IsDict(AssessmentOf(data))
Honesty == AssessmentOf(data)["honesty_score"]
InRange(v) == 0 <= Tenths(v) /\ Tenths(v) <= 100
HonestyAccepted == result.error.field # "honesty_score"

\* accepted exactly when numeric and 0 <= honesty_score <= 10, out of range reported
HonestyRange ==
    /\ HonestyAccepted <=> (Numeric(Honesty) /\ InRange(Honesty))
    /\ (Numeric(Honesty) /\ ~InRange(Honesty)) =>
          result = Fail(Err("debe estar entre", 0, "honesty_score"))

ScoreActivities ==
    {Activity(StrV(<<"a">>), Absent, IntV(30), Absent, out, StrV(TxtBoth)) : out \in OutputValues}
    \cup {NonDictActivity(IntV(5))}
ScoreLogs ==
    {DailyLog(StrV(TxtDate), ActivityList(items), LogNew["self_assessment"],
              NonDictAssessment(Absent)) :
        items \in UNION {[1..len -> ScoreActivities] : len \in 0..MaxScoreActs}}
    \cup {DailyLog(StrV(TxtDate), NonListActivities(v), LogNew["self_assessment"],
                   NonDictAssessment(Absent)) : v \in {Absent, Null, IntV(5)}}

InitScore ==
    /\ fileKind = "file"
    /\ data \in ScoreLogs
    /\ edits = 0
    /\ removed = NothingRemoved
    /\ pc = "score"
    /\ result = NotRun
    /\ score = NoScore
    /\ NoWeek
    /\ NoTools

\* score = calculate_daily_score(daily_log)
CalculateDailyScore ==
    /\ pc = "score"
    /\ score' = calculate_daily_score(data)
    /\ pc' = "scored"
    /\ UNCHANGED <<fileKind, data, edits, removed, result>>
    /\ UNCHANGED weekVars
    /\ UNCHANGED toolVars

NextScore == CalculateDailyScore

SpecScore == InitScore /\ [][NextScore]_vars

\* a scored log whose activities are objects with a text under output_produced
ScoredTexts ==
    /\ pc = "scored"
    /\ data["activities"].t = "list"
    /\ \A i \in 1..Len(data["activities"].items) :
          data["activities"].items[i]["output_produced"].t = "str"
OutputText(i) == data["activities"].items[i]["output_produced"].s
NumActivities == Len(data["activities"].items)

\* v is 100 * k / n rounded to 2 decimals, in hundredths: no hundredth is nearer
NearestHundredth(v, k, n) ==
    /\ 2 * (v * n - 10000 * k) <= n
    /\ 2 * (10000 * k - v * n) <= n

\* C9: for n > 0 activities the score is round(100 * k / n, 2), k the number of
\* activities whose output_produced, trimmed and lower-cased, is non-empty and is not
\* "none" (a whitespace-only output is not tangible); it lies in [0, 100]; for n = 0 it
\* is 0.0 and nothing is raised.
C9_ScoreFormula ==
    ScoredTexts =>
        LET k == Cardinality({i \in 1..NumActivities :
                                Strip(Lower(OutputText(i))) \notin {<<>>, TxtNone}})
        IN  /\ score.raised = "None"
            /\ 0 <= score.value /\ score.value <= 10000
            /\ NumActivities = 0 => score.value = 0
            /\ NumActivities > 0 => NearestHundredth(score.value, k, NumActivities)

IsNoneToken(txt) == Strip(Lower(txt)) = TxtNone

ScoreValues == (0 - OutOfRange)..(10000 + OutOfRange)

InitClassify ==
    /\ fileKind = "file"
    /\ data = LogNew
    /\ edits = 0
    /\ removed = NothingRemoved
    /\ pc = "classify"
    /\ result = NotRun
    /\ \E v \in ScoreValues : score = Returned(v)
    /\ NoWeek
    /\ NoTools

\* classification = classify_score(score)
ClassifyScore ==
    /\ pc = "classify"
    /\ tier' = classify_score(score.value)
    /\ pc' = "classified"
    /\ UNCHANGED <<fileKind, data, edits, removed, result, score>>
    /\ UNCHANGED <<logs, weekly, metrics, report, block>>
    /\ UNCHANGED toolVars

\* the report's section 5 for the same score
SelectRecommendation ==
    /\ pc = "classified"
    /\ block' = RecommendationBlock(score.value)
    /\ pc' = "recommended"
    /\ UNCHANGED <<fileKind, data, edits, removed, result, score>>
    /\ UNCHANGED <<logs, weekly, metrics, report, tier>>
    /\ UNCHANGED toolVars

NextClassify ==
    \/ ClassifyScore
    \/ SelectRecommendation

SpecClassify == InitClassify /\ [][NextClassify]_vars

Classified == pc \in {"classified", "recommended"}
TierRank(t) ==
    CASE t = "FRACASO" -> 1
      [] t = "ACEPTABLE" -> 2
      [] t = "EXCELENTE" -> 3
      [] OTHER -> 0

\* C11: classify_score puts every score in exactly one tier: EXCELENTE iff score > 80,
\* ACEPTABLE iff 60 <= score <= 80, FRACASO iff score < 60; classify(80) = ACEPTABLE,
\* classify(80.01) = EXCELENTE, classify(60) = ACEPTABLE, classify(59.99) = FRACASO; the
\* tier never goes down when the score goes up (by a hundredth, hence by any amount).
C11_Tiers ==
    Classified =>
        /\ tier \in {"EXCELENTE", "ACEPTABLE", "FRACASO"}
        /\ tier = "EXCELENTE" <=> score.value > 8000
        /\ tier = "ACEPTABLE" <=> (6000 <= score.value /\ score.value <= 8000)
        /\ tier = "FRACASO" <=> score.value < 6000
        /\ score.value = 8000 => tier = "ACEPTABLE"
        /\ score.value = 8001 => tier = "EXCELENTE"
        /\ score.value = 6000 => tier = "ACEPTABLE"
        /\ score.value = 5999 => tier = "FRACASO"
        /\ TierRank(classify_score(score.value - 1)) <= TierRank(tier)

\* the score 80.0 has been classified, as ACEPTABLE
C11_Witness == Classified /\ score.value = 8000 /\ tier = "ACEPTABLE"

\* C19: the recommendation block of the report agrees with classify_score for every
\* score: the '<60' block iff FRACASO, the middle block iff ACEPTABLE, the '>80' block iff
\* EXCELENTE; a score of exactly 80 and a score of exactly 60 get the middle block.
C19_BlocksAgree ==
    pc = "recommended" =>
        /\ block = "ACCION INMEDIATA" <=> tier = "FRACASO"
        /\ block = "MEJORA NECESARIA" <=> tier = "ACEPTABLE"
        /\ block = "CONTINUA" <=> tier = "EXCELENTE"
        /\ score.value \in {6000, 8000} => block = "MEJORA NECESARIA"

\* ------------------------------------------------ the weekly functions
\* the activities of a week: each type with and without output, both duration keys, a
\* whitespace-only output, no type and no duration, a duration of null, a type in
\* capitals, and a value that is no activity
WeekActivities ==
    {Activity(StrV(<<"a">>), Absent, IntV(30), Absent, StrV(TxtNone), StrV(TxtProduction)),
     Activity(StrV(<<"a">>), Absent, IntV(20), Absent, StrV(<<"f">>), StrV(TxtConsumption)),
     Activity(Absent, StrV(<<"a">>), Absent, FloatV(5), StrV(<<"f">>), StrV(TxtBoth)),
     Activity(StrV(<<"a">>), Absent, IntV(10), Absent, StrV(TxtNone), StrV(TxtLearning)),
     Activity(StrV(<<"a">>), Absent, IntV(15), Absent, StrV(<<" ">>), StrV(TxtBoth)),
     Activity(StrV(<<"a">>), Absent, Absent, Absent, StrV(<<"f">>), Absent),
     Activity(StrV(<<"a">>), Absent, Null, Absent, StrV(<<"f">>), StrV(TxtProduction)),
     Activity(StrV(<<"a">>), Absent, IntV(5), Absent, StrV(<<"f">>), IntV(1)),
     NonDictActivity(IntV(5))}

\* a record as it is appended to the week: no activity yet, or a malformed one
WeekRecords ==
    {DailyLog(StrV(TxtDate), ActivityList(<<>>), LogNew["self_assessment"],
              NonDictAssessment(Absent)),
     DailyLog(StrV(TxtDate), NonListActivities(Absent), LogNew["self_assessment"],
              NonDictAssessment(Absent)),
     DailyLog(StrV(TxtDate), NonListActivities(Null), LogNew["self_assessment"],
              NonDictAssessment(Absent)),
     NonDictLog(Null), NonDictLog(StrV(<<"x">>)), NonDictLog(StrV(TxtActivities)),
     NonDictLog(ListV(0))}

RECURSIVE ActivitiesIn(_)
ActivitiesIn(records) ==
    IF records = <<>> THEN 0
    ELSE Len(Head(records)["activities"].items) + ActivitiesIn(Tail(records))

InitWeek ==
    /\ fileKind = "file"
    /\ data = LogNew
    /\ edits = 0
    /\ removed = NothingRemoved
    /\ pc = "week"
    /\ result = NotRun
    /\ score = NoScore
    /\ NoWeek
    /\ NoTools

\* one more file of the week is loaded
AddRecord ==
    /\ pc = "week" /\ Len(logs) < MaxWeekLogs
    /\ \E r \in WeekRecords : logs' = Append(logs, r)
    /\ UNCHANGED <<fileKind, data, edits, removed, pc, result, score>>
    /\ UNCHANGED <<weekly, metrics, report, tier, block>>
    /\ UNCHANGED toolVars

\* the last record has one more activity
AddActivity ==
    /\ pc = "week" /\ logs # <<>> /\ ActivitiesIn(logs) < MaxWeekActs
    /\ IsDict(logs[Len(logs)]) /\ IsList(logs[Len(logs)]["activities"])
    /\ \E a \in WeekActivities :
          logs' = [logs EXCEPT ![Len(logs)]["activities"] = ActivityList(Append(@.items, a))]
    /\ UNCHANGED <<fileKind, data, edits, removed, pc, result, score>>
    /\ UNCHANGED <<weekly, metrics, report, tier, block>>
    /\ UNCHANGED toolVars

\* weekly_score = calculate_weekly_score(week_logs)
CalculateWeeklyScore ==
    /\ pc = "week"
    /\ weekly' = calculate_weekly_score(logs)
    /\ pc' = "weekly score"
    /\ UNCHANGED <<fileKind, data, edits, removed, result, score>>
    /\ UNCHANGED <<logs, metrics, report, tier, block>>
    /\ UNCHANGED toolVars

\* metrics = calculate_weekly_metrics(week_logs)
CalculateWeeklyMetrics ==
    /\ pc = "week"
    /\ metrics' = calculate_weekly_metrics(logs)
    /\ pc' = "weekly metrics"
    /\ UNCHANGED <<fileKind, data, edits, removed, result, score>>
    /\ UNCHANGED <<logs, weekly, report, tier, block>>
    /\ UNCHANGED toolVars

\* report = generate_weekly_report(week_logs, user_name)
GenerateWeeklyReport ==
    /\ pc = "week"
    /\ report' = generate_weekly_report(logs)
    /\ pc' = "weekly report"
    /\ UNCHANGED <<fileKind, data, edits, removed, result, score>>
    /\ UNCHANGED <<logs, weekly, metrics, tier, block>>
    /\ UNCHANGED toolVars

NextWeek ==
    \/ AddRecord
    \/ AddActivity
    \/ CalculateWeeklyScore
    \/ CalculateWeeklyMetrics
    \/ GenerateWeeklyReport

SpecWeek == InitWeek /\ [][NextWeek]_vars

WeeklyScored == pc = "weekly score"
\* the records calculate_daily_score raises on, and those it gives a score
Raising == {i \in 1..Len(logs) : calculate_daily_score(logs[i]).raised # "None"}
Scoring == {i \in 1..Len(logs) : calculate_daily_score(logs[i]).raised = "None"}
EmptyInput == "La lista de logs diarios no puede estar vacia"
NoValidData == "No se pudo calcular ningun score diario valido"

\* C12: in calculate_weekly_score every record on which calculate_daily_score raises
\* (no activities key, activities not a list, a record that is no object, an activity
\* that is no object) is skipped with a warning and the other records are still scored:
\* a malformed record never aborts the weekly computation.
C12_MalformedSkipped ==
    (WeeklyScored /\ logs # <<>>) =>
        /\ weekly.warnings = Cardinality(Raising)
        /\ weekly.raised = "None" \/ (weekly.raised = "ValueError" /\ weekly.msg = NoValidData)
        /\ Scoring # {} => weekly.raised = "None"

\* C13: calculate_weekly_score fails with the empty-input error when there is no record,
\* with the no-valid-data error when there are records and every one was skipped, and
\* returns a number without raising in every other case.
C13_WeeklyErrors ==
    WeeklyScored =>
        /\ logs = <<>> => (weekly.raised = "ValueError" /\ weekly.msg = EmptyInput)
        /\ (logs # <<>> /\ Scoring = {}) =>
              (weekly.raised = "ValueError" /\ weekly.msg = NoValidData)
        /\ Scoring # {} => weekly.raised = "None"

\* the sum of f over S
RECURSIVE SumOver(_, _)
SumOver(S, f) ==
    IF S = {} THEN 0
    ELSE LET x == CHOOSE x \in S : TRUE IN f[x] + SumOver(S \ {x}, f)
DailyScoreOf(i) == calculate_daily_score(logs[i]).value
DailyScores == [i \in 1..Len(logs) |-> DailyScoreOf(i)]

C15_OnlyTwoErrors ==
    (pc = "scored" /\ IsDict(data)) =>
        /\ data["activities"].t = "absent" => score = Raised("KeyError")
        /\ data["activities"].t \notin {"absent", "list"} => score = Raised("ValueError")
        /\ score.raised \in {"None", "KeyError", "ValueError"}
        /\ (/\ data["activities"].t = "list"
            /\ \A i \in 1..NumActivities : data["activities"].items[i].t = "dict")
              => score.raised = "None"

\* C16: every record that validate_daily_log accepts is scored by calculate_daily_score
\* without an error, and its score is in [0, 100].
C16_AcceptedIsScored ==
    (pc = "scored" /\ result.valid) =>
        /\ score.raised = "None"
        /\ 0 <= score.value /\ score.value <= 10000

\* an accepted record of two activities, one of them with output, scores 50.0
C16_Witness ==
    /\ pc = "scored" /\ result.valid
    /\ Len(data["activities"].items) = 2
    /\ score = Returned(5000)

\* the record with its activities in the order perm
Reordered(d, perm) ==
    [d EXCEPT !["activities"] = ActivityList([i \in 1..Len(@.items) |-> @.items[perm[i]]])]

\* C17: the score does not depend on the order of the activities: every permutation of
\* the activities of a record gives the same result.
C17_OrderInvariant ==
    (pc = "scored" /\ IsDict(data) /\ data["activities"].t = "list") =>
        \A perm \in Permutations(1..NumActivities) :
            calculate_daily_score(Reordered(data, perm)) = score

\* three activities, the first one only with output: 33.33 in every order
C17_Witness ==
    /\ ScoredTexts /\ NumActivities = 3
    /\ OutputText(1) = <<"f">> /\ OutputText(2) = TxtNone /\ OutputText(3) = TxtNone
    /\ score = Returned(3333)

\* the block of section 5 that belongs to a tier
BlockOfTier(t) ==
    CASE t = "FRACASO" -> "ACCION INMEDIATA"
      [] t = "ACEPTABLE" -> "MEJORA NECESARIA"
      [] OTHER -> "CONTINUA"

\* C18: generate_weekly_report selects the recommendation block by the tier of the
\* weekly score, the score it prints as Execution Score and classifies, whatever the
\* daily scores are.
C18_BlockOfWeeklyScore ==
    (pc = "weekly report" /\ report.raised = "None") =>
        /\ report.classification = classify_score(report.execution_score)
        /\ report.recommendation = BlockOfTier(report.classification)

\* tangible output as the specification has it: not empty after trimming, and not none
TangibleOutput(a) == Strip(Lower(a["output_produced"].s)) \notin {<<>>, TxtNone}
\* the side an activity's time goes to by the rule of the claim
ProductionSide(a) ==
    \/ a["type"].s = TxtProduction
    \/ a["type"].s \in {TxtBoth, TxtLearning} /\ TangibleOutput(a)
\* the activities the metrics count: (record, position) of the records with a list
Counted_Activities ==
    {<<i, j>> \in (1..Len(logs)) \X (1..MaxWeekActs + 1) :
        /\ IsDict(logs[i]) /\ IsList(logs[i]["activities"])
        /\ j <= Len(logs[i]["activities"].items)}
ActivityAt(ij) == logs[ij[1]]["activities"].items[ij[2]]
DurationAt(ij) == Tenths(TimeInvested(ActivityAt(ij)))
Durations == [ij \in Counted_Activities |-> DurationAt(ij)]
\* every counted activity has one of the four types, as text
TypedWeek ==
    \A ij \in Counted_Activities :
        /\ IsStr(ActivityAt(ij)["type"])
        /\ ActivityAt(ij)["type"].s \in {TxtProduction, TxtConsumption, TxtBoth, TxtLearning}

\* C20: calculate_weekly_metrics gives every activity's duration to exactly one of
\* production time and consumption time: production to production time, consumption to
\* consumption time, both or learning to production time if the activity has tangible
\* output and to consumption time otherwise; production_time + consumption_time =
\* total_time_minutes after any list of records.
C20_TimeAttribution ==
    (pc = "weekly metrics" /\ metrics.raised = "None") =>
        /\ metrics.production_time + metrics.consumption_time = metrics.total_time_minutes
        /\ metrics.total_time_minutes = SumOver(Counted_Activities, Durations)
        /\ TypedWeek =>
              metrics.production_time =
                  SumOver({ij \in Counted_Activities : ProductionSide(ActivityAt(ij))},
                          Durations)

MetricsReturned == pc = "weekly metrics" /\ metrics.raised = "None"
Abs(x) == IF x < 0 THEN 0 - x ELSE x
\* pct, in tenths of a percent, is the share part / total rounded to 1 decimal
ShareOf(pct, part, total) == 2 * Abs(pct * total - 1000 * part) <= total

\* C21: the production and consumption percentages are both 0 when total minutes is 0;
\* when total minutes > 0 each is the share of total minutes rounded to 1 decimal, and
\* the two sum to 100 within that rounding (0.1), whatever the types of the activities.
C21_Percentages ==
    MetricsReturned =>
        /\ metrics.total_time_minutes = 0 =>
              (metrics.production_percentage = 0 /\ metrics.consumption_percentage = 0)
        /\ metrics.total_time_minutes > 0 =>
              /\ ShareOf(metrics.production_percentage, metrics.production_time,
                         metrics.total_time_minutes)
              /\ ShareOf(metrics.consumption_percentage, metrics.consumption_time,
                         metrics.total_time_minutes)
              /\ Abs(metrics.production_percentage + metrics.consumption_percentage - 1000) <= 1

\* 20 minutes of consumption and half a minute of production: 97.6 % and 2.4 %
C21_Witness ==
    /\ MetricsReturned
    /\ metrics.total_time_minutes = 205
    /\ metrics.consumption_percentage = 976 /\ metrics.production_percentage = 24

ReportReturned == pc = "weekly report" /\ report.raised = "None"
\* the mean of the daily scores of all the records, rounded to 2 decimals
MeanOfRecords ==
    IF logs = <<>> THEN 0 ELSE RoundMean(SumOver(DOMAIN logs, DailyScores), Len(logs))

\* C22: calculate_weekly_metrics returns daily_scores with exactly one entry per input
\* record, in input order, entry i being calculate_daily_score of record i, and
\* weekly_score is their mean rounded to 2 decimals (0 without records); the line 'Dia i'
\* of the report shows the score and the classification of the i-th input record.
C22_OneScorePerRecord ==
    /\ MetricsReturned =>
          /\ Len(metrics.daily_scores) = Len(logs)
          /\ \A i \in DOMAIN logs :
                /\ calculate_daily_score(logs[i]).raised = "None"
                /\ metrics.daily_scores[i] = DailyScoreOf(i)
          /\ metrics.weekly_score = MeanOfRecords
    /\ ReportReturned =>
          /\ Len(report.days) = Len(logs)
          /\ \A i \in DOMAIN logs :
                /\ calculate_daily_score(logs[i]).raised = "None"
                /\ report.days[i].score = DailyScoreOf(i)
                /\ report.days[i].score_class = classify_score(DailyScoreOf(i))

\* every record of the week has the key activities
AllWithActivities == \A i \in DOMAIN logs : IsDict(logs[i]) /\ Has(logs[i], "activities")

\* C23: the Execution Score printed by generate_weekly_report equals the calculation
\* printed for it, (activities with real output / total activities) x 100 over all the
\* activities of the period, for every list of records with at least one activity, also
\* when the days have different numbers of activities.
C23_ScoreIsPrintedRatio ==
    (ReportReturned /\ report.total_activities > 0) =>
        Abs(report.execution_score * report.total_activities
              - 10000 * report.activities_with_output) <= report.total_activities

\* every day of the week has as many activities as the first
EqualDays ==
    \A i \in DOMAIN logs :
        Len(logs[i]["activities"].items) = Len(logs[1]["activities"].items)

\* ------------------------------------------------ validate_week_logs
MaxFiles == 3

\* the code point of a character of a file name
Code(c) ==
    CASE c = "." -> 46 [] c = "/" -> 47 [] c = "B" -> 66 [] c = "a" -> 97
      [] c = "b" -> 98 [] c = "j" -> 106 [] c = "n" -> 110 [] c = "o" -> 111
      [] c = "s" -> 115 [] c = "t" -> 116 [] c = "w" -> 119 [] c = "x" -> 120

\* a < b as Python compares two texts: by code point, a proper prefix first
RECURSIVE StrLess(_, _)
StrLess(a, b) ==
    IF b = <<>> THEN FALSE
    ELSE IF a = <<>> THEN TRUE
    ELSE IF Head(a) # Head(b) THEN Code(Head(a)) < Code(Head(b))
    ELSE StrLess(Tail(a), Tail(b))

TxtDotJson == <<".", "j", "s", "o", "n">>
\* the pattern '*.json' of line 236
MatchesJson(name) ==
    /\ Len(name) >= Len(TxtDotJson)
    /\ SubSeq(name, Len(name) - Len(TxtDotJson) + 1, Len(name)) = TxtDotJson

FolderPath == <<"w">>
\* str(json_file): the folder's path, a separator and the name
PathOf(name) == FolderPath \o <<"/">> \o name

\* sorted(...): the entry goes before the first entry with a greater name; the paths of
\* one folder differ in their last part only
RECURSIVE InsertSorted(_, _)
InsertSorted(f, sorted) ==
    IF sorted = <<>> THEN <<f>>
    ELSE IF StrLess(f.name, Head(sorted).name) THEN <<f>> \o sorted
    ELSE <<Head(sorted)>> \o InsertSorted(f, Tail(sorted))

RECURSIVE Sorted(_)
Sorted(files) ==
    IF files = <<>> THEN <<>> ELSE InsertSorted(Head(files), Sorted(Tail(files)))

\* mutant: the files are taken in the order the folder lists them
JsonFiles_Unsorted(files) ==
    SelectSeq(files, LAMBDA f : MatchesJson(f.name))

\* line 236: json_files = sorted(folder.glob('*.json'))
JsonFiles(files) ==
    Sorted(SelectSeq(files, LAMBDA f : MatchesJson(f.name)))

WeekResults(valid, invalid, warned) == [valid |-> valid, invalid |-> invalid, warned |-> warned]

\* lines 243-250: the loop over the files found, from file i on
RECURSIVE ValidateFiles(_, _, _)
ValidateFiles(json_files, i, acc) ==
    IF i > Len(json_files) THEN acc
    ELSE LET file_path == PathOf(json_files[i].name)
             checked == validate_daily_log(json_files[i].kind, json_files[i].content)
         IN  ValidateFiles(json_files, i + 1,
                 IF checked.valid
                 THEN [acc EXCEPT !.valid = Append(@, file_path)]
                 ELSE [acc EXCEPT !.invalid = Append(@, [path |-> file_path, error |-> checked.error])])

\* validate_week_logs(folder_path), lines 220-252
validate_week_logs(fld) ==
    IF fld.kind = "missing"
    THEN WeekResults(<<>>, <<[path |-> FolderPath,
                               error |-> Err("La carpeta especificada no existe", 0, "")]>>,
                     FALSE)
    ELSE IF fld.kind # "directory"
    THEN WeekResults(<<>>, <<[path |-> FolderPath,
                               error |-> Err("La ruta no corresponde a una carpeta", 0, "")]>>,
                     FALSE)
    ELSE IF JsonFiles(fld.files) = <<>> THEN WeekResults(<<>>, <<>>, TRUE)
    ELSE ValidateFiles(JsonFiles(fld.files), 1, WeekResults(<<>>, <<>>, FALSE))

\* the names of the entries of a folder
FolderNames ==
    {<<"a">> \o TxtDotJson, <<"b">> \o TxtDotJson, <<"B">> \o TxtDotJson,
     <<"a", ".", "t", "x", "t">>, <<"a", ".", "j", "s", "o", "n", ".", "b", "a", "x">>}
\* what the path of an entry names and what the file parses to: two valid logs, a log
\* without activities, a file that is not an object, one that does not parse, a directory
FolderContents ==
    {<<"file", LogNew>>, <<"file", LogLegacy>>,
     <<"file", [LogNew EXCEPT !["activities"] = ActivityList(<<>>)]>>,
     <<"file", NonDictLog(ListV(0))>>, <<"badjson", NonDictLog(Null)>>,
     <<"directory", NonDictLog(Null)>>}

InitFolder ==
    /\ fileKind = "file"
    /\ data = LogNew
    /\ edits = 0
    /\ removed = NothingRemoved
    /\ pc = "folder"
    /\ result = NotRun
    /\ score = NoScore
    /\ NoWeek
    /\ folder = [kind |-> "directory", files |-> <<>>]
    /\ results = NoScore
    /\ patterns = NoScore
    /\ stored = "none"
    /\ temp = FALSE

\* the path names no folder, or a file
SetFolderKind ==
    /\ pc = "folder"
    /\ \E k \in {"missing", "file", "directory"} \ {folder.kind} : folder' = [folder EXCEPT !.kind = k]
    /\ UNCHANGED <<fileKind, data, edits, removed, pc, result, score>>
    /\ UNCHANGED weekVars
    /\ UNCHANGED <<results, patterns, stored, temp>>

\* one more entry in the folder, listed after the others
AddFile ==
    /\ pc = "folder" /\ Len(folder.files) < MaxFiles
    /\ \E name \in FolderNames, c \in FolderContents :
          /\ \A i \in DOMAIN folder.files : folder.files[i].name # name
          /\ folder' = [folder EXCEPT !.files = Append(@, [name |-> name, kind |-> c[1], content |-> c[2]])]
    /\ UNCHANGED <<fileKind, data, edits, removed, pc, result, score>>
    /\ UNCHANGED weekVars
    /\ UNCHANGED <<results, patterns, stored, temp>>

\* results = validate_week_logs(folder_path)
ValidateWeekLogs ==
    /\ pc = "folder"
    /\ results' = validate_week_logs(folder)
    /\ pc' = "week logs"
    /\ UNCHANGED <<fileKind, data, edits, removed, result, score>>
    /\ UNCHANGED weekVars
    /\ UNCHANGED <<folder, patterns, stored, temp>>

NextFolder ==
    \/ SetFolderKind
    \/ AddFile
    \/ ValidateWeekLogs

SpecFolder == InitFolder /\ [][NextFolder]_vars

FolderValidated == pc = "week logs" /\ folder.kind = "directory"
\* the entries of the folder that '*.json' matches
JsonEntries == {i \in DOMAIN folder.files : MatchesJson(folder.files[i].name)}
Accepted(i) == validate_daily_log(folder.files[i].kind, folder.files[i].content)
\* the positions of a path in the two lists
InValid(path) == {k \in DOMAIN results.valid : results.valid[k] = path}
InInvalid(path) == {k \in DOMAIN results.invalid : results.invalid[k].path = path}
Ascending(paths) ==
    \A k \in DOMAIN paths : k > 1 => StrLess(paths[k - 1], paths[k])

\* C24: validate_week_logs partitions the folder's *.json files: each appears in exactly
\* one of the lists valid and invalid, in valid iff validate_daily_log accepts that file
\* (whatever the other files are), an invalid entry carries that file's error message,
\* nothing else is listed, and both lists are in lexicographic order of the file path; a
\* folder without a *.json file gives two empty lists and a warning, not an error.
C24_Partition ==
    FolderValidated =>
        /\ \A i \in JsonEntries :
              LET path == PathOf(folder.files[i].name)
              IN  /\ Cardinality(InValid(path)) + Cardinality(InInvalid(path)) = 1
                  /\ InValid(path) # {} <=> Accepted(i).valid
                  /\ \A k \in InInvalid(path) :
                        results.invalid[k].error = Accepted(i).error
        /\ Len(results.valid) + Len(results.invalid) = Cardinality(JsonEntries)
        /\ Ascending(results.valid)
        /\ Ascending([k \in DOMAIN results.invalid |-> results.invalid[k].path])
        /\ results.warned <=> JsonEntries = {}

\* B.json (valid), a.json (no activities) and b.json (valid), listed in another order
C24_Witness ==
    /\ FolderValidated
    /\ Len(folder.files) = 3
    /\ folder.files[1].name = <<"b">> \o TxtDotJson
    /\ results.valid = <<PathOf(<<"B">> \o TxtDotJson), PathOf(<<"b">> \o TxtDotJson)>>
    /\ Len(results.invalid) = 1
    /\ results.invalid[1].path = PathOf(<<"a">> \o TxtDotJson)
    /\ results.invalid[1].error.msg = "no puede estar vacio"

\* a folder with a text file only: two empty lists and the warning
C24_WitnessEmpty ==
    /\ FolderValidated
    /\ Len(folder.files) = 1
    /\ results = WeekResults(<<>>, <<>>, TRUE)

Analysed == pc = "analysed"
AcceptedFile == validate_daily_log(fileKind, data).valid

\* C25: analyze_execution_patterns returns a metrics dictionary for every file that
\* validate_daily_log accepts and None only for a file that is invalid: it never raises
\* on an accepted file, also when the file uses the alias field names
\* (time_invested_minutes, self_assesment, main_blocker, tomorrow_commitment).
C25_AnalysesAccepted ==
    Analysed =>
        /\ patterns.raised = "None"
        /\ patterns.none <=> ~AcceptedFile

\* the accepted file has duration_minutes in every activity and reads its assessment
\* under the names self_assessment, honesty_score and main_obstacle
CanonicalNames ==
    /\ \A i \in DOMAIN data["activities"].items :
          Has(data["activities"].items[i], "duration_minutes")
    /\ ReadAssessment(data) = "None"

\* the key self_assessment is there and its value is no well-formed assessment
IllFormedAssessment ==
    /\ IsDict(data) /\ Has(data, "self_assessment")
    /\ ValidateAssessment([data EXCEPT !["self_assesment"] = NonDictAssessment(Absent)]) # NoError

\* C27: when the key self_assessment is present its value is the self-assessment that
\* validate_daily_log checks: a record whose self_assessment is an empty object or is no
\* object is rejected even if the misspelled key self_assesment holds a well-formed
\* assessment; the misspelled key is used only when self_assessment is absent.
C27_PresentKeyChecked ==
    (Validated /\ fileKind = "file" /\ IllFormedAssessment) => ~result.valid

PatternsReturned == Analysed /\ patterns.raised = "None" /\ ~patterns.none

\* C29: the metrics analyze_execution_patterns returns for an accepted file are
\* consistent: activities_with_output + zero_output_count = total_activities,
\* execution_score = round(100 * activities_with_output / total_activities, 2) (one
\* tangible-output test, also for an empty or whitespace-only output_produced), and
\* production_minutes + consumption_minutes + both_minutes = total_minutes for every
\* accepted activity type, learning included.
C29_ConsistentPatterns ==
    PatternsReturned =>
        /\ patterns.activities_with_output + patterns.zero_output_count
              = patterns.total_activities
        /\ NearestHundredth(patterns.execution_score, patterns.activities_with_output,
                            patterns.total_activities)
        /\ patterns.production_minutes + patterns.consumption_minutes + patterns.both_minutes
              = patterns.total_minutes

\* no activity of the file is of type learning or has a whitespace-only output
PlainActivities ==
    \A i \in DOMAIN data["activities"].items :
        LET a == data["activities"].items[i]
        IN  /\ a["type"].s # TxtLearning
            /\ a["output_produced"].s = <<>> \/ Strip(a["output_produced"].s) # <<>>

\* ------------------------------------- ExecutionCoach.register_daily_log (main.py)
MaxEntered == 2

NoFile == NonDictLog(Absent)
\* lines 150-154: the structure of a day without a log
FreshLog ==
    DailyLog(StrV(TxtDate), ActivityList(<<>>),
             Assessment(Absent, Absent, Absent, Absent, Absent), NonDictAssessment(Absent))
\* the log file of the day before the operation: none, a log in either set of names, or a
\* file without activities
StoredLogs ==
    {NoFile, LogNew, LogLegacy,
     DailyLog(StrV(TxtDate), NonListActivities(Absent), LogNew["self_assessment"],
              NonDictAssessment(Absent))}

\* lines 176-207: the activity built from the answers; an output of 'none' makes it a
\* consumption, any other output asks for the type and adds the key evidence
EnteredActivity(minutes, output, type_choice) ==
    IF Lower(output) = TxtNone
    THEN Activity(StrV(<<"a">>), Absent, IntV(minutes), Absent, StrV(output), StrV(TxtConsumption))
    ELSE [Activity(StrV(<<"a">>), Absent, IntV(minutes), Absent, StrV(output),
                   StrV(IF type_choice = "1" THEN TxtProduction ELSE TxtBoth))
             EXCEPT !.n = 1]

InitRegister ==
    /\ fileKind = "file"
    /\ data = NoFile
    /\ edits = 0
    /\ removed = NothingRemoved
    /\ pc = "menu"
    /\ result = NotRun
    /\ score = NoScore
    /\ NoWeek
    /\ folder = <<>>
    /\ results = NoScore
    /\ patterns = NoScore
    /\ stored \in StoredLogs
    /\ temp = NoFile

\* lines 128-154: the existing log is loaded and kept (1), dropped (2), or the operation
\* ends on another answer
Begin ==
    /\ pc = "menu"
    /\ \E choice \in {"1", "2", "x"} :
          IF stored # NoFile /\ choice = "x" THEN pc' = "returned" /\ data' = data
          ELSE /\ pc' = "activities"
               /\ data' = IF stored # NoFile /\ choice = "1" /\ Truthy(stored)
                          THEN stored ELSE FreshLog
    /\ UNCHANGED <<fileKind, edits, removed, result, score>>
    /\ UNCHANGED weekVars
    /\ UNCHANGED toolVars

\* lines 160-211: one activity is entered and appended (a cancelled one changes nothing)
EnterActivity ==
    /\ pc = "activities" /\ Len(data["activities"].items) < MaxEntered
    /\ \E minutes \in {0, 30}, output \in {TxtNone, <<"f">>, <<>>}, type_choice \in {"1", "2"} :
          IF ~Has(data, "activities")
          THEN pc' = "KeyError" /\ data' = data
          ELSE /\ pc' = pc
               /\ data' = [data EXCEPT !["activities"] =
                              ActivityList(Append(@.items,
                                  EnteredActivity(minutes, output, type_choice)))]
    /\ UNCHANGED <<fileKind, edits, removed, result, score>>
    /\ UNCHANGED weekVars
    /\ UNCHANGED toolVars

\* lines 162-163 and 215-217: 'fin' ends the list; without activities the operation ends
FinishActivities ==
    /\ pc = "activities"
    /\ pc' = IF ~Has(data, "activities") THEN "KeyError"
             ELSE IF Len(data["activities"].items) = 0 THEN "returned"
             ELSE "assessment"
    /\ UNCHANGED <<fileKind, data, edits, removed, result, score>>
    /\ UNCHANGED weekVars
    /\ UNCHANGED toolVars

\* lines 223-242: the self-assessment is entered, the log is written to the '.temp' file
WriteTemp ==
    /\ pc = "assessment"
    /\ \E h \in {MIN_HONESTY_SCORE, MAX_HONESTY_SCORE},
          main_obstacle \in {<<>>, <<"x">>}, commitment_tomorrow \in {<<>>, <<"y">>} :
          data' = [data EXCEPT !["self_assessment"] =
                      Assessment(IntV(h), StrV(main_obstacle), Absent,
                                 StrV(commitment_tomorrow), Absent)]
    /\ temp' = data'
    /\ pc' = "temp written"
    /\ UNCHANGED <<fileKind, edits, removed, result, score>>
    /\ UNCHANGED weekVars
    /\ UNCHANGED <<folder, results, patterns, stored>>

\* line 245: is_valid, error = validate_daily_log(str(daily_log_path) + ".temp")
ValidateTemp ==
    /\ pc = "temp written"
    /\ result' = validate_daily_log(IF temp = NoFile THEN "missing" ELSE "file", temp)
    /\ pc' = "temp validated"
    /\ UNCHANGED <<fileKind, data, edits, removed, score>>
    /\ UNCHANGED weekVars
    /\ UNCHANGED toolVars

\* lines 248-249: the '.temp' file is removed
RemoveTemp ==
    /\ pc = "temp validated"
    /\ temp' = NoFile
    /\ pc' = "temp removed"
    /\ UNCHANGED <<fileKind, data, edits, removed, result, score>>
    /\ UNCHANGED weekVars
    /\ UNCHANGED <<folder, results, patterns, stored>>

\* mutant: the log is written whatever the validation said
SaveLog_Unchecked ==
    /\ pc = "temp removed"
    /\ pc' = "saved" /\ stored' = data
    /\ UNCHANGED <<fileKind, data, edits, removed, result, score>>
    /\ UNCHANGED weekVars
    /\ UNCHANGED <<folder, results, patterns, temp>>

\* lines 251-257: an invalid log ends the operation, a valid one is written to the file
SaveLog ==
    /\ pc = "temp removed"
    /\ IF result.valid THEN pc' = "saved" /\ stored' = data
       ELSE pc' = "returned" /\ stored' = stored
    /\ UNCHANGED <<fileKind, data, edits, removed, result, score>>
    /\ UNCHANGED weekVars
    /\ UNCHANGED <<folder, results, patterns, temp>>

NextRegister ==
    \/ Begin
    \/ EnterActivity
    \/ FinishActivities
    \/ WriteTemp
    \/ ValidateTemp
    \/ RemoveTemp
    \/ SaveLog

SpecRegister == InitRegister /\ [][NextRegister]_vars

\* the operation is over and had reached the validation
EndedAfterValidation == pc \in {"saved", "returned", "KeyError"} /\ result # NotRun

\* C30: register_daily_log writes or overwrites the day's log file only after the
\* assembled log has passed validate_daily_log (the file then holds that log); on a
\* validation failure, as with an activity of 0 minutes, a log stored before is left as
\* it was; and on every path that reaches the validation the '.temp' file is gone when
\* the operation ends.
C30_SavedOnlyIfValid ==
    /\ [][stored' # stored =>
            /\ result.valid /\ result = validate_daily_log("file", data)
            /\ temp = NoFile
            /\ stored' = data]_vars
    /\ [](EndedAfterValidation => temp = NoFile)
    /\ []((EndedAfterValidation /\ ~result.valid) => pc = "returned")

\* an activity of 0 minutes was added to a stored log: the operation is over, the log
\* was found invalid, the stored log is the one of before and the '.temp' file is gone
C30_Witness ==
    /\ pc = "returned" /\ result.error.msg = "debe ser mayor a 0"
    /\ stored = LogNew /\ data # LogNew
    /\ Len(data["activities"].items) = 2
    /\ temp = NoFile

\* ------------------------------------------------ the week of accepted logs
\* the logs of a week as main.py stores them and other tools may write them: every one
\* is accepted by validate_daily_log; some activities carry both duration keys
AcceptedRecords ==
    LET Act(dm, tim, out, ty) ==
            Activity(StrV(<<"a">>), Absent, dm, tim, StrV(out), StrV(ty))
        Rec(items) ==
            DailyLog(StrV(TxtDate), ActivityList(items), LogNew["self_assessment"],
                     NonDictAssessment(Absent))
        made == Act(IntV(30), Absent, <<"f">>, TxtProduction)
        read == Act(IntV(20), Absent, TxtNone, TxtConsumption)
    IN  {r \in {LogNew, LogLegacy, Rec(<<made, read>>), Rec(<<made, made, read>>),
                Rec(<<Act(IntV(30), IntV(0), <<"f">>, TxtBoth)>>),
                Rec(<<Act(IntV(30), IntV(20), <<"f">>, TxtProduction)>>),
                Rec(<<Act(IntV(30), IntV(-40), TxtNone, TxtLearning)>>),
                Rec(<<Act(IntV(30), StrV(<<"3">>), <<"f">>, TxtProduction)>>),
                Rec(<<Act(IntV(0), IntV(20), <<"f">>, TxtProduction)>>)} :
            validate_daily_log("file", r).valid}

\* get_current_week_logs: one more stored log of the week is loaded
AddAccepted ==
    /\ pc = "week" /\ Len(logs) < MaxWeekLogs
    /\ \E r \in AcceptedRecords : logs' = Append(logs, r)
    /\ UNCHANGED <<fileKind, data, edits, removed, pc, result, score>>
    /\ UNCHANGED <<weekly, metrics, report, tier, block>>
    /\ UNCHANGED toolVars

NextAccepted ==
    \/ AddAccepted
    \/ CalculateWeeklyScore
    \/ CalculateWeeklyMetrics
    \/ GenerateWeeklyReport

SpecAccepted == InitWeek /\ [][NextAccepted]_vars

\* the duration the validator checked: duration_minutes, or time_invested_minutes when
\* that key is the only one
ValidatedAt(ij) == Tenths(ActivityAt(ij)[DurationField(ActivityAt(ij))])
ValidatedDurations == [ij \in Counted_Activities |-> ValidatedAt(ij)]

\* C26: for every list of records accepted by validate_daily_log,
\* calculate_weekly_metrics sums the durations the validator checked: total_time_minutes
\* is the sum over all activities of the validated duration and is strictly positive,
\* also when an activity has both duration_minutes and time_invested_minutes, and
\* generate_weekly_report returns its text without raising.
C26_ValidatedDurationsSummed ==
    /\ (pc = "weekly metrics" /\ logs # <<>>) =>
          /\ metrics.raised = "None"
          /\ metrics.total_time_minutes = SumOver(Counted_Activities, ValidatedDurations)
          /\ metrics.total_time_minutes > 0
    /\ pc = "weekly report" => report.raised = "None"

\* no activity of the week has a time_invested_minutes next to its duration_minutes,
\* unless it is 0
OneDurationKey ==
    \A ij \in Counted_Activities :
        \/ ~Has(ActivityAt(ij), "duration_minutes")
        \/ ~Truthy(Get(ActivityAt(ij), "time_invested_minutes"))

\* C28: the two weekly scores agree: for every non-empty list of records accepted by
\* validate_daily_log the weekly_score of calculate_weekly_metrics (shown in the report
\* and in the weekly summary) equals calculate_weekly_score of the same records (used by
\* apply_automatic_decisions), so both print the same classification.
C28_WeeklyScoresAgree ==
    /\ (pc = "weekly metrics" /\ logs # <<>>) =>
          /\ metrics.raised = "None" /\ calculate_weekly_score(logs).raised = "None"
          /\ metrics.weekly_score = calculate_weekly_score(logs).value
    /\ (pc = "weekly report" /\ logs # <<>>) =>
          /\ report.raised = "None"
          /\ report.execution_score = calculate_weekly_score(logs).value
          /\ report.classification = classify_score(calculate_weekly_score(logs).value)

====
